---- MODULE Spec2Model ----
(***************************************************************************)
(* A model of the control core of the OPN FM synthesizer plugin:           *)
(*   - audio::Keyboard            (src/src/audio/keyboard.cpp)             *)
(*   - audio::FmAudioSource       (src/src/audio/fm_audio_source.cpp)      *)
(*   - PluginProcessor::fillBuffer (src/src/plugin_processor.cpp)          *)
(***************************************************************************)
EXTENDS Integers, Sequences, FiniteSets, TLC

(***************************************************************************)
(* Bounds of the model.                                                    *)
(***************************************************************************)
\* Largest polyphony a Keyboard is constructed with or resized to.
MaxPolyphony == 2
\* Note numbers are kC4NoteNumber .. kC4NoteNumber + MaxNoteOffset.
MaxNoteOffset == 1
\* MIDI events handled by the realtime callbacks of one behaviour.
MaxEvents == 2
\* Samples in the buffer of one realtime callback.
NumSamples == 2

(***************************************************************************)
(* Program constants.                                                      *)
(***************************************************************************)
kC4NoteNumber == 60
\* std::size_t arithmetic wraps.  The build's modulus is 2^64; TLC's
\* integers are 32 bits wide, so the model wraps at 2^30, which exceeds
\* every queue length here just as 2^64 exceeds every length of a deque.
SizeModulus == 2^30

VARIABLES
    \* ---- audio::Keyboard (keyboard.h:78-86)
    noteOnQueue_,        \* std::deque<NoteAssignment>, oldest first
    assignableIdQueue_,  \* std::deque<std::size_t>
    polyphony_,          \* std::size_t
    \* ---- the last call of the public interface and what it gave back
    call,                \* [op, ...arguments]
    ret,                 \* the returned list of NoteAssignment
    err,                 \* "none", "invalid_argument" or "range_error"
    ub,                  \* TRUE once a call has run into undefined behaviour
    hist,                \* "notes": only tryNoteOn/tryNoteOff so far;
                         \* "ok": every call so far returned normally;
                         \* "failed": some call threw
    \* ---- audio::FmAudioSource (fm_audio_source.cpp); its keyboard_ member
    \*      is the three Keyboard variables above
    toneParameterState_,    \* FmParameters
    pitchBendSensitivity_,  \* parameter::PitchBendSensitivityValue
    pitchBend_,             \* int
    noteOnMask_,            \* std::atomic<std::uint8_t>
    reservedChanges_,       \* std::vector<Register>
    ym2608_,                \* the register sink: every write it was given
    \* ---- PluginProcessor (plugin_processor.cpp)
    resampler_,             \* TRUE once prepareToPlay has created it
    pc,                     \* where the realtime callback (fillBuffer) stands
    midiMessages,           \* the callback's MIDI buffer: <<[samplePosition, message]>>
    iter,                   \* index of the next event of midiMessages
    sampleStartPosition,    \* int
    nEvents,                \* MIDI events handled since construction
    \* ---- observers of one realtime callback
    rendered,               \* samples rendered so far by this callback
    unsent,                 \* offsets of the events whose queued writes were
                            \* not yet given to the sink, one per write
    sentLog,                \* {<<p, r>>}: a write queued at offset p was first
                            \* given to the sink with r samples rendered
    \* ---- audio::parameter::ParameterChangeQueue
    \*      (parameter_change_queue.h:47-56), PluginProcessor's
    \*      parameterChangeQueue_
    queue_,                 \* std::list<ParameterVariant>, front first; each
                            \* element with the identity of its list node
    map_,                   \* std::unordered_map: variant index -> list node
    \* ---- observers of the parameter path
    nParameters,            \* parameter values given to the program so far
    edited,                 \* the edits made since the last drain started:
                            \* <<kind, slot>> -> [raw, value] of the latest
    nOthers,                \* MIDI messages given to the source directly
                            \* that were no note-on
    \* ---- FmAudioSource's RPN detector (fm_audio_source.cpp:557)
    rpnDetector_,           \* [parameterMSB, parameterLSB, isNRPN]
    \* ---- the threads of the plugin and the mutexes they hold
    threadPc,               \* thread -> index of its next instruction, 0: idle
    held,                   \* thread -> the mutexes it holds
    \* ---- a RangedValue<T, Minimum, Maximum> (ranged_value.h)
    limits,                 \* [kMinimum, kMaximum]
    value_                  \* T

kbVars == <<noteOnQueue_, assignableIdQueue_, polyphony_>>
obsVars == <<call, ret, err, ub, hist>>
srcVars == <<toneParameterState_, pitchBendSensitivity_, pitchBend_,
             noteOnMask_, reservedChanges_, rpnDetector_>>
cbVars == <<resampler_, pc, midiMessages, iter, sampleStartPosition, nEvents,
            rendered, unsent, sentLog>>
pqVars == <<queue_, map_, nParameters, edited, nOthers>>
auxVars == <<threadPc, held, limits, value_>>
vars == <<noteOnQueue_, assignableIdQueue_, polyphony_, call, ret, err, ub,
          hist, toneParameterState_, pitchBendSensitivity_, pitchBend_,
          noteOnMask_, reservedChanges_, ym2608_, resampler_, pc,
          midiMessages, iter, sampleStartPosition, nEvents, rendered, unsent,
          sentLog, queue_, map_, nParameters, edited, nOthers, rpnDetector_,
          threadPc, held, limits, value_>>

(***************************************************************************)
(* Sequence helpers.                                                       *)
(***************************************************************************)
Range(s) == {s[i] : i \in 1..Len(s)}

Min(a, b) == IF a < b THEN a ELSE b

\* s without its first n elements (deque::erase(begin, begin + n)).
DropFirst(s, n) == SubSeq(s, n + 1, Len(s))

\* s without its i-th element (deque::erase(iterator)).
RemoveAt(s, i) == SubSeq(s, 1, i - 1) \o SubSeq(s, i + 1, Len(s))

\* The elements of a finite set of integers in ascending order.
RECURSIVE SortedSeq(_)
SortedSeq(S) ==
    IF S = {} THEN <<>>
    ELSE LET m == CHOOSE x \in S : \A y \in S : x <= y
         IN <<m>> \o SortedSeq(S \ {m})

(***************************************************************************)
(* audio::Note (note.h)                                                    *)
(***************************************************************************)
Note(channel, noteNumber, velocity) ==
    [channel |-> channel, noteNumber |-> noteNumber, velocity |-> velocity]

noteOff(channel, noteNumber) == Note(channel, noteNumber, 0)

isNoteOn(note) == note.velocity # 0

NoteAssignment(assignId, note) == [assignId |-> assignId, note |-> note]

\* The inputs of the model.
\* Two MIDI channels: enough to tell notes of equal number apart.
Channels == {1, 2}
NoteNumbers == kC4NoteNumber..(kC4NoteNumber + MaxNoteOffset)
Velocities == {0, 100}
Notes == {Note(c, n, v) : c \in Channels, n \in NoteNumbers, v \in Velocities}
Ids == 0..(MaxPolyphony - 1)

(***************************************************************************)
(* audio::Keyboard.  A keyboard value is a record of the three members;    *)
(* each member function is an operator from the keyboard before the call   *)
(* to the keyboard after it and the call's result.                         *)
(***************************************************************************)
Kb(noteOns, assignable, polyphony) ==
    [noteOnQueue |-> noteOns, assignableIdQueue |-> assignable,
     polyphony |-> polyphony]

\* Keyboard::Keyboard(polyphony), polyphony > 0: ids 0..polyphony-1 are free.
KeyboardNew(polyphony) ==
    Kb(<<>>, [i \in 1..polyphony |-> i - 1], polyphony)

AssignIds(queue) == {queue[i].assignId : i \in 1..Len(queue)}

\* Keyboard::usedAssignIds
usedAssignIds(kb) == AssignIds(kb.noteOnQueue) \cup Range(kb.assignableIdQueue)

\* The note-offs synthesized for a list of assignments, in order.
NoteOffsOf(queue) ==
    [i \in 1..Len(queue) |->
        NoteAssignment(queue[i].assignId,
                       noteOff(queue[i].note.channel, queue[i].note.noteNumber))]

\* tryNoteOff that evicts the oldest voice when no voice sounds the note.
tryNoteOff_EvictsOldest(kb, note) ==
    IF isNoteOn(note)
    THEN [kb |-> kb, ret |-> <<>>]
    ELSE LET same == {i \in 1..Len(kb.noteOnQueue) :
                         /\ kb.noteOnQueue[i].note.channel = note.channel
                         /\ kb.noteOnQueue[i].note.noteNumber = note.noteNumber}
         IN IF kb.noteOnQueue = <<>>
            THEN [kb |-> kb, ret |-> <<>>]
            ELSE LET i == IF same = {} THEN 1
                          ELSE CHOOSE x \in same : \A y \in same : x <= y
                     found == kb.noteOnQueue[i]
                 IN [kb |-> Kb(RemoveAt(kb.noteOnQueue, i),
                               Append(kb.assignableIdQueue, found.assignId),
                               kb.polyphony),
                     ret |-> <<NoteAssignment(found.assignId,
                                   noteOff(found.note.channel,
                                           found.note.noteNumber))>>]

\* tryNoteOff that forgets to hand the voice's id back to the free queue.
tryNoteOff_KeepsId(kb, note) ==
    IF isNoteOn(note)
    THEN [kb |-> kb, ret |-> <<>>]
    ELSE LET same == {i \in 1..Len(kb.noteOnQueue) :
                         /\ kb.noteOnQueue[i].note.channel = note.channel
                         /\ kb.noteOnQueue[i].note.noteNumber = note.noteNumber}
         IN IF same = {}
            THEN [kb |-> kb, ret |-> <<>>]
            ELSE LET i == CHOOSE x \in same : \A y \in same : x <= y
                     found == kb.noteOnQueue[i]
                 IN [kb |-> Kb(RemoveAt(kb.noteOnQueue, i),
                               kb.assignableIdQueue, kb.polyphony),
                     ret |-> <<NoteAssignment(found.assignId,
                                   noteOff(found.note.channel,
                                           found.note.noteNumber))>>]

\* Keyboard::tryNoteOff.  ret is empty (no value) or holds the one note-off.
tryNoteOff(kb, note) ==
    IF isNoteOn(note)
    THEN [kb |-> kb, ret |-> <<>>]
    ELSE LET same == {i \in 1..Len(kb.noteOnQueue) :
                         /\ kb.noteOnQueue[i].note.channel = note.channel
                         /\ kb.noteOnQueue[i].note.noteNumber = note.noteNumber}
         IN IF same = {}
            THEN [kb |-> kb, ret |-> <<>>]
            ELSE LET i == CHOOSE x \in same : \A y \in same : x <= y
                     found == kb.noteOnQueue[i]
                 IN [kb |-> Kb(RemoveAt(kb.noteOnQueue, i),
                               Append(kb.assignableIdQueue, found.assignId),
                               kb.polyphony),
                     ret |-> <<NoteAssignment(found.assignId,
                                   noteOff(found.note.channel,
                                           found.note.noteNumber))>>]

\* The tail of Keyboard::tryNoteOn (keyboard.cpp:131-138): the front free id
\* is assigned to the note.
AssignNewNoteOn(kb, note, changes) ==
    LET newAssignment == NoteAssignment(Head(kb.assignableIdQueue), note)
    IN [kb |-> Kb(Append(kb.noteOnQueue, newAssignment),
                  Tail(kb.assignableIdQueue), kb.polyphony),
        ret |-> Append(changes, newAssignment),
        ub |-> FALSE]

\* Keyboard::tryNoteOn: the set of outcomes of the call.  It is a singleton
\* unless the call reads front() of an empty noteOnQueue_ and pops it, which
\* is undefined: then the build may stop, or go on with any assignment read
\* as the "oldest".
tryNoteOn(kb, note) ==
    IF ~isNoteOn(note)
    THEN {[kb |-> kb, ret |-> <<>>, ub |-> FALSE]}
    ELSE LET off == tryNoteOff(kb, note)
             kb1 == off.kb
             changes == off.ret
         IN IF kb1.assignableIdQueue = <<>>
            THEN IF kb1.noteOnQueue = <<>>
                 THEN {[kb |-> kb1, ret |-> <<>>, ub |-> TRUE]}
                      \cup
                      {[kb |-> Kb(<<NoteAssignment(g, note)>>, <<>>, kb1.polyphony),
                        ret |-> <<NoteAssignment(g, noteOff(n.channel, n.noteNumber)),
                                  NoteAssignment(g, note)>>,
                        ub |-> TRUE] : g \in Ids, n \in Notes}
                 ELSE LET oldest == Head(kb1.noteOnQueue)
                          stolen == NoteAssignment(oldest.assignId,
                                        noteOff(oldest.note.channel,
                                                oldest.note.noteNumber))
                      IN {AssignNewNoteOn(
                              Kb(Tail(kb1.noteOnQueue),
                                 Append(kb1.assignableIdQueue, oldest.assignId),
                                 kb1.polyphony),
                              note, Append(changes, stolen))}
            ELSE {AssignNewNoteOn(kb1, note, changes)}

\* Keyboard::forceAllNoteOff
forceAllNoteOff(kb) ==
    [kb |-> Kb(<<>>, kb.assignableIdQueue, kb.polyphony),
     ret |-> NoteOffsOf(kb.noteOnQueue)]

\* setPolyphony that adds the new ids to the free queue largest first.
setPolyphony_GrowDescending(kb, newPolyphony) ==
    IF newPolyphony = 0
    THEN [kb |-> kb, ret |-> <<>>, err |-> "invalid_argument"]
    ELSE
    LET oldPolyphony == kb.polyphony
        kbx == Kb(kb.noteOnQueue, kb.assignableIdQueue, newPolyphony)
        broken == [kb |-> kbx, ret |-> <<>>, err |-> "range_error"]
    IN IF newPolyphony < oldPolyphony
       THEN \* Shrink polyphony.
            LET decreasedSize == (newPolyphony - oldPolyphony) % SizeModulus
            IN IF Len(kb.noteOnQueue) + Len(kb.assignableIdQueue) < decreasedSize
               THEN broken
               ELSE LET nDeletableAssignableId ==
                            Min(decreasedSize, Len(kb.assignableIdQueue))
                        assignable == DropFirst(kb.assignableIdQueue,
                                                nDeletableAssignableId)
                        rest == decreasedSize - nDeletableAssignableId
                    IN IF rest = 0
                       THEN [kb |-> Kb(kb.noteOnQueue, assignable, newPolyphony),
                             ret |-> <<>>, err |-> "none"]
                       ELSE [kb |-> Kb(DropFirst(kb.noteOnQueue, rest),
                                       assignable, newPolyphony),
                             ret |-> NoteOffsOf(SubSeq(kb.noteOnQueue, 1, rest)),
                             err |-> "none"]
       ELSE IF oldPolyphony < newPolyphony
       THEN \* Aggregate current used IDs.
            LET usedIds == usedAssignIds(kb)
                difference == SortedSeq((0..(newPolyphony - 1)) \ usedIds)
                increasedSize == newPolyphony - oldPolyphony
            IN IF Cardinality(usedIds) # oldPolyphony
               THEN broken
               ELSE IF Len(difference) < increasedSize
               THEN broken
               ELSE [kb |-> Kb(kb.noteOnQueue,
                               [i \in 1..increasedSize |->
                                   difference[increasedSize + 1 - i]]
                                   \o kb.assignableIdQueue,
                               newPolyphony),
                     ret |-> <<>>, err |-> "none"]
       ELSE [kb |-> kbx, ret |-> <<>>, err |-> "none"]

\* Keyboard::setPolyphony.  polyphony_ is exchanged before any check that
\* throws std::range_error; the queues are as they were when it throws.
setPolyphony(kb, newPolyphony) ==
    IF newPolyphony = 0
    THEN [kb |-> kb, ret |-> <<>>, err |-> "invalid_argument"]
    ELSE
    LET oldPolyphony == kb.polyphony
        kbx == Kb(kb.noteOnQueue, kb.assignableIdQueue, newPolyphony)
        broken == [kb |-> kbx, ret |-> <<>>, err |-> "range_error"]
    IN IF newPolyphony < oldPolyphony
       THEN \* Shrink polyphony.
            LET decreasedSize == (newPolyphony - oldPolyphony) % SizeModulus
            IN IF Len(kb.noteOnQueue) + Len(kb.assignableIdQueue) < decreasedSize
               THEN broken
               ELSE LET nDeletableAssignableId ==
                            Min(decreasedSize, Len(kb.assignableIdQueue))
                        assignable == DropFirst(kb.assignableIdQueue,
                                                nDeletableAssignableId)
                        rest == decreasedSize - nDeletableAssignableId
                    IN IF rest = 0
                       THEN [kb |-> Kb(kb.noteOnQueue, assignable, newPolyphony),
                             ret |-> <<>>, err |-> "none"]
                       ELSE [kb |-> Kb(DropFirst(kb.noteOnQueue, rest),
                                       assignable, newPolyphony),
                             ret |-> NoteOffsOf(SubSeq(kb.noteOnQueue, 1, rest)),
                             err |-> "none"]
       ELSE IF oldPolyphony < newPolyphony
       THEN \* Aggregate current used IDs.
            LET usedIds == usedAssignIds(kb)
                difference == SortedSeq((0..(newPolyphony - 1)) \ usedIds)
                increasedSize == newPolyphony - oldPolyphony
            IN IF Cardinality(usedIds) # oldPolyphony
               THEN broken
               ELSE IF Len(difference) < increasedSize
               THEN broken
               ELSE [kb |-> Kb(kb.noteOnQueue,
                               SubSeq(difference, 1, increasedSize)
                                   \o kb.assignableIdQueue,
                               newPolyphony),
                     ret |-> <<>>, err |-> "none"]
       ELSE [kb |-> kbx, ret |-> <<>>, err |-> "none"]

(***************************************************************************)
(* Bit arithmetic on naturals, as the C++ operators | and & compute it.    *)
(***************************************************************************)
RECURSIVE BitOr(_, _)
BitOr(a, b) ==
    IF a = 0 THEN b
    ELSE IF b = 0 THEN a
    ELSE (IF a % 2 = 1 \/ b % 2 = 1 THEN 1 ELSE 0) + 2 * BitOr(a \div 2, b \div 2)

RECURSIVE BitAnd(_, _)
BitAnd(a, b) ==
    IF a = 0 \/ b = 0 THEN 0
    ELSE (IF a % 2 = 1 /\ b % 2 = 1 THEN 1 ELSE 0) + 2 * BitAnd(a \div 2, b \div 2)

\* Conversion to std::uint8_t.
U8(x) == x % 256

\* C++ integer division and remainder truncate toward zero.
CDiv(a, b) == IF a >= 0 THEN a \div b ELSE -((-a) \div b)
CMod(a, b) == a - b * CDiv(a, b)

(***************************************************************************)
(* audio::parameter and audio::FmParameters (parameter/parameter.h)        *)
(***************************************************************************)
kSlotCount == 4
kMaxChannelCount == 6
kDefaultPolyphony == kMaxChannelCount
kDefaultPitchBendSensitivity == 2
kPanningMask == 240
kAttackRateMaximum == 31
kSsgegDownwardSaw == 8
kSemitoneCent == 100
kSemitoneCountInOctave == 12
kMinPitchBend == -8192
kMaxPitchBend == 8191

\* FmParameters::Operator with its default member initializers.
DefaultOperator ==
    [isEnabled |-> TRUE, ar |-> 31, dr |-> 0, sr |-> 0, rr |-> 7, sl |-> 0,
     tl |-> 0, ks |-> 0, ml |-> 0, dt |-> 0,
     ssgeg |-> [shape |-> kSsgegDownwardSaw, isEnabled |-> FALSE],
     am |-> FALSE]

\* defaultFmParameters
defaultFmParameters ==
    [al |-> 7, fb |-> 0,
     slot |-> [n \in 0..(kSlotCount - 1) |-> DefaultOperator],
     lfo |-> [frequency |-> 0, pms |-> 0, ams |-> 0, isEnabled |-> FALSE]]

(***************************************************************************)
(* Register (register.h) and the address helpers of fm_audio_source.cpp    *)
(***************************************************************************)
\* Register(std::uint16_t address, std::uint8_t data)
Register(address, data) ==
    [pinA1 |-> BitAnd(address, 256) # 0,
     address |-> BitAnd(address, 255),
     data |-> U8(data)]

kChannelOffset == <<0, 1, 2, 256, 257, 258>>

addressOfChannel(channel, baseAddress) ==
    IF channel < kMaxChannelCount
    THEN baseAddress + kChannelOffset[channel + 1]
    ELSE baseAddress

kOperatorOffset == <<0, 8, 4, 12>>

addressOfOperator(slot, baseAddress) ==
    IF slot < Len(kOperatorOffset)
    THEN baseAddress + kOperatorOffset[slot + 1]
    ELSE baseAddress

\* The conversion without the sign bit.
convertDetuneAsRegisterValue_NoSign(dt) == U8(IF dt < 0 THEN -dt ELSE dt)

convertDetuneAsRegisterValue(dt) ==
    BitOr(IF dt < 0 THEN 4 ELSE 0, U8(IF dt < 0 THEN -dt ELSE dt))

kNoteOnChannelTable == <<0, 1, 2, 4, 5, 6>>

kFNum1AddressTable == <<160, 161, 162, 416, 417, 418>>

kBlockFNum2AddressOffset == 4

(***************************************************************************)
(* Pitch (pitch_util.h, fm_audio_source.cpp:84-105)                        *)
(***************************************************************************)
calculateCent(noteNumber, pitchBend, pitchBendSensitivity) ==
    noteNumber * kSemitoneCent
    + CDiv(kSemitoneCent * pitchBendSensitivity * pitchBend,
           IF pitchBend < 0 THEN -kMinPitchBend ELSE kMaxPitchBend)

\* calculateFNumber(calculateHzFromCent(kC4Cent + centInOctave)) for a
\* centInOctave that is a whole number of semitones, -11..11: the values of
\* round(440 * 2^((centInOctave - 900) / 1200) * 2304 / 975).
kBaseFNumUp == <<618, 655, 694, 735, 779, 825, 874, 926, 981, 1040, 1102, 1167>>
kBaseFNumDown == <<328, 347, 368, 389, 413, 437, 463, 491, 520, 551, 584>>

baseFNumOfSemitone(semitone) ==
    IF semitone >= 0 THEN kBaseFNumUp[semitone + 1]
    ELSE kBaseFNumDown[semitone + kSemitoneCountInOctave]

calculateFNumberAndBlockFromCent(cent) ==
    LET kOctaveCent == kSemitoneCountInOctave * kSemitoneCent
        block == CDiv(cent, kOctaveCent) - 1
        centInOctave == CMod(cent, kOctaveCent)
        baseFNum == baseFNumOfSemitone(CDiv(centInOctave, kSemitoneCent))
    IN BitOr(U8(block) * 2048, baseFNum) % 65536

\* trySetValue that stores whatever it is given.
trySetValue_NoRangeCheck(current, value, minimum, maximum) ==
    [value |-> value, ok |-> TRUE]

\* RangedValue::trySetValue: the value held afterwards and the result.
trySetValue(current, value, minimum, maximum) ==
    IF value < minimum \/ maximum < value
    THEN [value |-> current, ok |-> FALSE]
    ELSE [value |-> value, ok |-> TRUE]

\* RangedValue::setAndClampValue (std::clamp)
setAndClampValue(value, minimum, maximum) ==
    IF value < minimum THEN minimum
    ELSE IF maximum < value THEN maximum
    ELSE value

(***************************************************************************)
(* The RPN detector of the source, rpnDetector_.  Its class belongs to the *)
(* MIDI library and is not part of the source: it is modelled after the    *)
(* specification's account of it, the sequence of the controllers 101 and  *)
(* 100 (parameter number) and 6 and 38 (value), with 99 and 98 for an NRPN.*)
(* 255 stands for a byte that was not received.                            *)
(***************************************************************************)
MidiRPNDetectorNew ==
    [parameterMSB |-> 255, parameterLSB |-> 255, valueMSB |-> 255,
     valueLSB |-> 255, isNRPN |-> FALSE]

\* reset(): the partial sequence is forgotten.
rpnReset(detector) == MidiRPNDetectorNew

\* A parameter number received anew forgets the value bytes.
ParameterByte(detector, field, byte, isNRPN) ==
    [detector |-> [detector EXCEPT ![field] = byte, !.isNRPN = isNRPN,
                                   !.valueMSB = 255, !.valueLSB = 255],
     result |-> <<>>]

\* A message is parsed once both bytes of the parameter number and the
\* value's MSB have been received.
SendIfReady(detector) ==
    [detector |-> detector,
     result |->
        IF \/ detector.parameterMSB >= 128
           \/ detector.parameterLSB >= 128
           \/ detector.valueMSB >= 128
        THEN <<>>
        ELSE <<[parameterNumber |-> detector.parameterMSB * 128
                                    + detector.parameterLSB,
                isNRPN |-> detector.isNRPN,
                value |-> IF detector.valueLSB < 128
                          THEN detector.valueMSB * 128 + detector.valueLSB
                          ELSE detector.valueMSB]>>]

\* tryParse(channel, controllerNumber, controllerValue) for the messages of
\* one channel: the detector after the controller and what was parsed, <<>>
\* or <<[parameterNumber, isNRPN, value]>>.
tryParse(detector, controllerNumber, controllerValue) ==
    CASE controllerNumber = 99 ->
            ParameterByte(detector, "parameterMSB", controllerValue, TRUE)
      [] controllerNumber = 98 ->
            ParameterByte(detector, "parameterLSB", controllerValue, TRUE)
      [] controllerNumber = 101 ->
            ParameterByte(detector, "parameterMSB", controllerValue, FALSE)
      [] controllerNumber = 100 ->
            ParameterByte(detector, "parameterLSB", controllerValue, FALSE)
      [] controllerNumber = 6 ->
            SendIfReady([detector EXCEPT !.valueMSB = controllerValue,
                                         !.valueLSB = 255])
      [] controllerNumber = 38 ->
            SendIfReady([detector EXCEPT !.valueLSB = controllerValue])
      [] OTHER -> [detector |-> detector, result |-> <<>>]

(***************************************************************************)
(* audio::FmAudioSource.  A source value is a record of the members the    *)
(* operations read and write.                                              *)
(***************************************************************************)
Src(kb, tone, pbs, pitchBend, mask, changes, detector) ==
    [keyboard |-> kb, toneParameterState |-> tone,
     pitchBendSensitivity |-> pbs, pitchBend |-> pitchBend,
     noteOnMask |-> mask, reservedChanges |-> changes,
     rpnDetector |-> detector]

Reserve(src, registers) ==
    [src EXCEPT !.reservedChanges = src.reservedChanges \o registers]

\* What a read of a 6-entry table at index 6 may give.
Garbage == {0, 255}

TableAt(table, index, garbage) ==
    IF index < Len(table) THEN table[index + 1] ELSE garbage

\* reserveNoteOn writing the channel bits without the note-on mask.
reserveNoteOn_NoMask(src, assignment, garbage) ==
    IF kMaxChannelCount < assignment.assignId
    THEN [src |-> src, ok |-> FALSE, ub |-> FALSE]
    ELSE [src |-> Reserve(src, <<Register(40,
                     TableAt(kNoteOnChannelTable, assignment.assignId, garbage))>>),
          ok |-> TRUE,
          ub |-> assignment.assignId >= kMaxChannelCount]

\* FmAudioSource::reserveNoteOn.  The guard lets assignId 6 through, and the
\* table read at index 6 is then out of bounds.
reserveNoteOn(src, assignment, garbage) ==
    IF kMaxChannelCount < assignment.assignId
    THEN [src |-> src, ok |-> FALSE, ub |-> FALSE]
    ELSE [src |-> Reserve(src, <<Register(40,
                     BitOr(TableAt(kNoteOnChannelTable, assignment.assignId, garbage),
                           src.noteOnMask))>>),
          ok |-> TRUE,
          ub |-> assignment.assignId >= kMaxChannelCount]

\* FmAudioSource::reserveNoteOff
reserveNoteOff(src, assignment, garbage) ==
    IF kMaxChannelCount < assignment.assignId
    THEN [src |-> src, ok |-> FALSE, ub |-> FALSE]
    ELSE [src |-> Reserve(src, <<Register(40,
                     TableAt(kNoteOnChannelTable, assignment.assignId, garbage))>>),
          ok |-> TRUE,
          ub |-> assignment.assignId >= kMaxChannelCount]

\* FmAudioSource::reservePitchChange(const NoteAssignment&)
reservePitchChangeOf(src, assignment, garbage) ==
    IF kMaxChannelCount < assignment.assignId
    THEN [src |-> src, ok |-> FALSE, ub |-> FALSE]
    ELSE LET pbs == src.pitchBendSensitivity
             cent == calculateCent(assignment.note.noteNumber, src.pitchBend, pbs)
             blockAndFNum == calculateFNumberAndBlockFromCent(cent)
             fNum1Address == TableAt(kFNum1AddressTable, assignment.assignId, garbage)
         IN [src |-> Reserve(src,
                     <<Register(fNum1Address + kBlockFNum2AddressOffset,
                                U8(blockAndFNum \div 256)),
                       Register(fNum1Address, U8(BitAnd(blockAndFNum, 255)))>>),
             ok |-> TRUE,
             ub |-> assignment.assignId >= kMaxChannelCount]

\* FmAudioSource::reservePitchChange(): every sounding voice, oldest first.
RECURSIVE ReservePitchChanges(_, _, _, _, _)
ReservePitchChanges(src, assignments, isSuccess, isUb, garbage) ==
    IF assignments = <<>>
    THEN [src |-> src, ok |-> isSuccess, ub |-> isUb]
    ELSE LET r == reservePitchChangeOf(src, Head(assignments), garbage)
         IN ReservePitchChanges(r.src, Tail(assignments),
                                isSuccess /\ r.ok, isUb \/ r.ub, garbage)

\* reservePitchChange() reaching the oldest voice only.
reservePitchChange_FirstOnly(src, garbage) ==
    LET noteOns == src.keyboard.noteOnQueue
    IN ReservePitchChanges(src,
           IF noteOns = <<>> THEN <<>> ELSE <<Head(noteOns)>>,
           TRUE, FALSE, garbage)

reservePitchChange(src, garbage) ==
    ReservePitchChanges(src, src.keyboard.noteOnQueue, TRUE, FALSE, garbage)

\* The loop of tryReserveChangeFromMidiMessage over what tryNoteOn returned
\* (fm_audio_source.cpp:589-596).
RECURSIVE ReserveAssignments(_, _, _, _, _)
ReserveAssignments(src, assignments, isSuccess, isUb, garbage) ==
    IF assignments = <<>>
    THEN [src |-> src, ok |-> isSuccess, ub |-> isUb]
    ELSE LET a == Head(assignments)
         IN IF isNoteOn(a.note)
            THEN LET r1 == reservePitchChangeOf(src, a, garbage)
                     r2 == reserveNoteOn(r1.src, a, garbage)
                 IN ReserveAssignments(r2.src, Tail(assignments),
                        isSuccess /\ r1.ok /\ r2.ok,
                        isUb \/ r1.ub \/ r2.ub, garbage)
            ELSE LET r == reserveNoteOff(src, a, garbage)
                 IN ReserveAssignments(r.src, Tail(assignments),
                        isSuccess /\ r.ok, isUb \/ r.ub, garbage)

\* MIDI messages (juce::MidiMessage) and Note(const juce::MidiMessage&).
NoteOnMessage(channel, noteNumber, velocity) ==
    [kind |-> "noteOn", channel |-> channel, noteNumber |-> noteNumber,
     velocity |-> velocity]

NoteOffMessage(channel, noteNumber) ==
    [kind |-> "noteOff", channel |-> channel, noteNumber |-> noteNumber,
     velocity |-> 0]

ControllerMessage(controllerNumber, controllerValue) ==
    [kind |-> "controller", channel |-> 1, noteNumber |-> 0, velocity |-> 0,
     controllerNumber |-> controllerNumber,
     controllerValue |-> controllerValue]

PitchWheelMessage(value) ==
    [kind |-> "pitchWheel", channel |-> 1, noteNumber |-> 0, velocity |-> 0,
     value |-> value]

NoteOfMessage(message) ==
    Note(message.channel, message.noteNumber,
         IF message.kind = "noteOn" THEN message.velocity ELSE 0)

\* tryReserveChangeFromMidiMessage that keeps the detector's partial sequence
\* over a message that is no controller.
tryReserveChangeFromMidiMessage_NoReset(src, message, garbage) ==
    IF message.kind = "controller"
    THEN LET parsed == tryParse(src.rpnDetector, message.controllerNumber,
                                message.controllerValue)
             src1 == [src EXCEPT !.rpnDetector = parsed.detector]
         IN IF parsed.result = <<>>
            THEN {[src |-> src1, ok |-> FALSE, ub |-> FALSE]}
            ELSE IF parsed.result[1].isNRPN \/ parsed.result[1].parameterNumber # 0
            THEN {[src |-> src1, ok |-> FALSE, ub |-> FALSE]}
            ELSE {reservePitchChange(
                      [src1 EXCEPT
                          !.pitchBendSensitivity =
                              setAndClampValue(parsed.result[1].parameterNumber,
                                               1, 24),
                          !.rpnDetector = rpnReset(src1.rpnDetector)],
                      garbage)}
    ELSE
    LET src0 == src
    IN
    IF message.kind = "noteOn"
    THEN {LET r == ReserveAssignments([src0 EXCEPT !.keyboard = out.kb],
                                      out.ret, out.ret # <<>>, out.ub, garbage)
          IN r : out \in tryNoteOn(src0.keyboard, NoteOfMessage(message))}
    ELSE IF message.kind = "noteOff"
    THEN LET out == tryNoteOff(src0.keyboard, NoteOfMessage(message))
             src1 == [src0 EXCEPT !.keyboard = out.kb]
         IN IF out.ret # <<>>
            THEN {reserveNoteOff(src1, out.ret[1], garbage)}
            ELSE {[src |-> src1, ok |-> FALSE, ub |-> FALSE]}
    ELSE IF message.kind = "pitchWheel"
    THEN {reservePitchChange(
              [src0 EXCEPT !.pitchBend = message.value + kMinPitchBend], garbage)}
    ELSE {[src |-> src0, ok |-> FALSE, ub |-> FALSE]}

\* FmAudioSource::tryReserveChangeFromMidiMessage: the set of outcomes
\* [src, ok, ub] of the call.
tryReserveChangeFromMidiMessage(src, message, garbage) ==
    IF message.kind = "controller"
    THEN LET parsed == tryParse(src.rpnDetector, message.controllerNumber,
                                message.controllerValue)
             src1 == [src EXCEPT !.rpnDetector = parsed.detector]
         IN IF parsed.result = <<>>
            THEN {[src |-> src1, ok |-> FALSE, ub |-> FALSE]}
            ELSE IF parsed.result[1].isNRPN \/ parsed.result[1].parameterNumber # 0
            THEN {[src |-> src1, ok |-> FALSE, ub |-> FALSE]}
            ELSE {reservePitchChange(
                      [src1 EXCEPT
                          !.pitchBendSensitivity =
                              setAndClampValue(parsed.result[1].parameterNumber,
                                               1, 24),
                          !.rpnDetector = rpnReset(src1.rpnDetector)],
                      garbage)}
    ELSE
    LET src0 == [src EXCEPT !.rpnDetector = rpnReset(src.rpnDetector)]
    IN
    IF message.kind = "noteOn"
    THEN {LET r == ReserveAssignments([src0 EXCEPT !.keyboard = out.kb],
                                      out.ret, out.ret # <<>>, out.ub, garbage)
          IN r : out \in tryNoteOn(src0.keyboard, NoteOfMessage(message))}
    ELSE IF message.kind = "noteOff"
    THEN LET out == tryNoteOff(src0.keyboard, NoteOfMessage(message))
             src1 == [src0 EXCEPT !.keyboard = out.kb]
         IN IF out.ret # <<>>
            THEN {reserveNoteOff(src1, out.ret[1], garbage)}
            ELSE {[src |-> src1, ok |-> FALSE, ub |-> FALSE]}
    ELSE IF message.kind = "pitchWheel"
    THEN {reservePitchChange(
              [src0 EXCEPT !.pitchBend = message.value + kMinPitchBend], garbage)}
    ELSE {[src |-> src0, ok |-> FALSE, ub |-> FALSE]}

\* The body of reserveUpdatingAllToneParameter for one operator slot
\* (fm_audio_source.cpp:700-718), written to the channel's registers.
OperatorRegisters(tone, channel, n) ==
    LET op == tone.slot[n]
        W(address, data) ==
            Register(addressOfChannel(channel, addressOfOperator(n, address)), data)
        rawDt == convertDetuneAsRegisterValue(op.dt)
        rawAr == IF op.ssgeg.isEnabled THEN kAttackRateMaximum ELSE op.ar
    IN <<W(48, BitOr(rawDt * 16, op.ml)),
         W(64, op.tl),
         W(80, BitOr(op.ks * 64, rawAr)),
         W(96, op.dr),
         W(112, op.sr),
         W(128, BitOr(op.sl * 16, op.rr)),
         W(144, op.ssgeg.shape)>>

RECURSIVE AllOperatorRegisters(_, _, _)
AllOperatorRegisters(tone, channel, n) ==
    IF n >= kSlotCount THEN <<>>
    ELSE OperatorRegisters(tone, channel, n)
         \o AllOperatorRegisters(tone, channel, n + 1)

\* One pass of the channel loop (fm_audio_source.cpp:691-722).
ChannelRegisters(tone, channel) ==
    <<Register(addressOfChannel(channel, 176), BitOr(tone.fb * 8, tone.al))>>
    \o AllOperatorRegisters(tone, channel, 0)
    \o <<Register(addressOfChannel(channel, 180),
                  BitOr(BitOr(kPanningMask, tone.lfo.ams * 16), tone.lfo.pms))>>

\* The note-on mask computed at fm_audio_source.cpp:733-739.
RECURSIVE NoteOnMaskBits(_, _)
NoteOnMaskBits(tone, i) ==
    IF i >= kSlotCount THEN 0
    ELSE BitOr((IF tone.slot[i].isEnabled THEN 1 ELSE 0) * (2 ^ i),
               NoteOnMaskBits(tone, i + 1))

\* FmAudioSource::reserveUpdatingAllToneParameter.  The channel loop runs
\* over the ids in ascending order and returns from the function at the
\* first id that is no hardware channel.
RECURSIVE UpdateChannels(_, _)
UpdateChannels(src, channels) ==
    IF channels = <<>>
    THEN [src |-> src, returned |-> FALSE]
    ELSE IF kMaxChannelCount <= Head(channels)
    THEN [src |-> src, returned |-> TRUE]
    ELSE UpdateChannels(
             Reserve(src, ChannelRegisters(src.toneParameterState, Head(channels))),
             Tail(channels))

reserveUpdatingAllToneParameter(src) ==
    LET loop == UpdateChannels(src, SortedSeq(usedAssignIds(src.keyboard)))
        tone == src.toneParameterState
    IN IF loop.returned
       THEN loop.src
       ELSE [Reserve(loop.src,
                 <<Register(34, BitOr(IF tone.lfo.isEnabled THEN 8 ELSE 0,
                                      tone.lfo.frequency))>>)
             EXCEPT !.noteOnMask = U8(NoteOnMaskBits(tone, 0) * 16)]

\* FmAudioSource::prepareToPlay up to its call of triggerReservedChanges.
prepareToPlayReserve(src) ==
    reserveUpdatingAllToneParameter(Reserve(src, <<Register(41, 128)>>))

\* FmAudioSource::triggerReservedChanges: every pending write is given to
\* the sink in order; reservedChanges_ is not written.
triggerReservedChanges(src, sink) ==
    [src |-> src, sink |-> sink \o src.reservedChanges]

(***************************************************************************)
(* Parameter values (parameter/parameter.h).  A ParameterVariant is a      *)
(* record [kind, slot, value]: kind names the alternative held, slot is    *)
(* the slot of a SlotAndValue (0 for the other alternatives) and value is  *)
(* the rawValue, with 0 and 1 for the bool of an OperatorEnabledValue.     *)
(***************************************************************************)
\* The alternatives of ParameterVariant in the order of their declaration.
ParameterVariant ==
    <<"PitchBendSensitivityValue", "AlgorithmValue", "FeedbackValue",
      "OperatorEnabledValue", "AttackRateValue", "DecayRateValue",
      "SustainRateValue", "ReleaseRateValue", "SustainLevelValue",
      "TotalLevelValue", "KeyScaleValue", "MultipleValue", "DetuneValue">>

ParameterKinds == Range(ParameterVariant)

SlotKinds ==
    ParameterKinds \ {"PitchBendSensitivityValue", "AlgorithmValue",
                      "FeedbackValue"}

\* std::variant::index()
VariantIndex(parameter) ==
    (CHOOSE i \in 1..Len(ParameterVariant) :
        ParameterVariant[i] = parameter.kind) - 1

\* kMinimum and kMaximum of each RangedValue alternative; a ToggledValue
\* holds false (0) or true (1).
kMinimum(kind) ==
    CASE kind = "PitchBendSensitivityValue" -> 1
      [] kind = "DetuneValue" -> -3
      [] OTHER -> 0

kMaximum(kind) ==
    CASE kind = "PitchBendSensitivityValue" -> 24
      [] kind \in {"AlgorithmValue", "FeedbackValue"} -> 7
      [] kind = "OperatorEnabledValue" -> 1
      [] kind \in {"AttackRateValue", "DecayRateValue", "SustainRateValue"} -> 31
      [] kind \in {"ReleaseRateValue", "SustainLevelValue", "MultipleValue"} -> 15
      [] kind = "TotalLevelValue" -> 127
      [] kind = "KeyScaleValue" -> 3
      [] kind = "DetuneValue" -> 3

\* parameterCast<To>(value): To's converting constructor, which is
\* RangedValue(T value) and so clamps, or ToggledValue(bool).  The raw
\* values given here are whole numbers that the value type can hold.
parameterCast(kind, raw) ==
    IF kind = "OperatorEnabledValue"
    THEN (IF raw # 0 THEN 1 ELSE 0)
    ELSE setAndClampValue(raw, kMinimum(kind), kMaximum(kind))

\* SlotAndValue{slot, value}; slot is a RangedValue<std::size_t, 0, 3>.
SlotAndValue(kind, slot, value) ==
    [kind |-> kind, slot |-> setAndClampValue(slot, 0, kSlotCount - 1),
     value |-> value]

PlainValue(kind, value) == [kind |-> kind, slot |-> 0, value |-> value]

(***************************************************************************)
(* FmAudioSource::tryReserveParameterChange, one overload per alternative  *)
(* (fm_audio_source.cpp:192-549).  Each gives [src, ok, ub].               *)
(***************************************************************************)
\* The channel loop of the parameter overloads run over the sounding voices
\* only.
ReserveForUsedIds_SoundingOnly(src, address, data) ==
    LET ids == SelectSeq(SortedSeq(AssignIds(src.keyboard.noteOnQueue)),
                         LAMBDA channel : channel < kMaxChannelCount)
    IN Reserve(src, [i \in 1..Len(ids) |->
                        Register(addressOfChannel(ids[i], address), data)])

\* for (channel : keyboard_.usedAssignIds()) { if (kMaxChannelCount <=
\* channel) continue; reservedChanges_.emplace_back(addressOfChannel(channel,
\* address), data); }: usedAssignIds is a std::set, read in ascending order.
ReserveForUsedIds(src, address, data) ==
    LET ids == SelectSeq(SortedSeq(usedAssignIds(src.keyboard)),
                         LAMBDA channel : channel < kMaxChannelCount)
    IN Reserve(src, [i \in 1..Len(ids) |->
                        Register(addressOfChannel(ids[i], address), data)])

Changed(src) == [src |-> src, ok |-> TRUE, ub |-> FALSE]

Unchanged(src) == [src |-> src, ok |-> FALSE, ub |-> FALSE]

\* toneParameterState_.slot[slot].field = value
WithSlot(src, slot, field, value) ==
    [src EXCEPT !.toneParameterState.slot[slot] =
        [src.toneParameterState.slot[slot] EXCEPT ![field] = value]]

tryReservePitchBendSensitivity(src, value, garbage) ==
    IF src.pitchBendSensitivity = value
    THEN Unchanged(src)
    ELSE reservePitchChange([src EXCEPT !.pitchBendSensitivity = value], garbage)

tryReserveFeedback(src, value) ==
    IF src.toneParameterState.fb = value
    THEN Unchanged(src)
    ELSE LET src1 == [src EXCEPT !.toneParameterState.fb = value]
         IN Changed(ReserveForUsedIds(src1, 176,
                        BitOr(value * 8, src1.toneParameterState.al)))

\* tryReserveAlgorithm writing the algorithm bits alone.
tryReserveAlgorithm_NoFeedback(src, value) ==
    IF src.toneParameterState.al = value
    THEN Unchanged(src)
    ELSE Changed(ReserveForUsedIds([src EXCEPT !.toneParameterState.al = value],
                                   176, value))

tryReserveAlgorithm(src, value) ==
    IF src.toneParameterState.al = value
    THEN Unchanged(src)
    ELSE LET src1 == [src EXCEPT !.toneParameterState.al = value]
         IN Changed(ReserveForUsedIds(src1, 176,
                        BitOr(src1.toneParameterState.fb * 8, value)))

\* The writes go to the sounding voices (keyboard_.noteOns()), oldest first.
\* The overload without the fetch_or / fetch_and on noteOnMask_.
tryReserveOperatorEnabled_KeepsMask(src, slot, value) ==
    IF src.toneParameterState.slot[slot].isEnabled = (value = 1)
    THEN Unchanged(src)
    ELSE LET noteOns == SelectSeq(src.keyboard.noteOnQueue,
                                  LAMBDA a : a.assignId < kMaxChannelCount)
         IN Changed(Reserve(WithSlot(src, slot, "isEnabled", value = 1),
                [i \in 1..Len(noteOns) |->
                    Register(40, BitOr(kNoteOnChannelTable[noteOns[i].assignId + 1],
                                       src.noteOnMask))]))

tryReserveOperatorEnabled(src, slot, value) ==
    IF src.toneParameterState.slot[slot].isEnabled = (value = 1)
    THEN Unchanged(src)
    ELSE LET mask == 2 ^ (slot + 4)
             noteOnMask == IF value = 1
                           THEN BitOr(src.noteOnMask, mask)
                           ELSE BitAnd(src.noteOnMask, 255 - mask)
             src1 == [WithSlot(src, slot, "isEnabled", value = 1)
                          EXCEPT !.noteOnMask = noteOnMask]
             noteOns == SelectSeq(src.keyboard.noteOnQueue,
                                  LAMBDA a : a.assignId < kMaxChannelCount)
         IN Changed(Reserve(src1,
                [i \in 1..Len(noteOns) |->
                    Register(40, BitOr(kNoteOnChannelTable[noteOns[i].assignId + 1],
                                       noteOnMask))]))

\* With SSG-EG enabled for the slot the function returns true at
\* fm_audio_source.cpp:292-295, before any register is reserved.
tryReserveAttackRate(src, slot, value) ==
    LET op == src.toneParameterState.slot[slot]
        src1 == WithSlot(src, slot, "ar", value)
    IN IF op.ar = value THEN Unchanged(src)
       ELSE IF op.ssgeg.isEnabled THEN Changed(src1)
       ELSE Changed(ReserveForUsedIds(src1, addressOfOperator(slot, 80),
                        U8(BitOr(op.ks * 64, value))))

\* tryReserveDecayRate without the comparison against the stored value.
tryReserveDecayRate_NoDiff(src, slot, value) ==
    Changed(ReserveForUsedIds(WithSlot(src, slot, "dr", value),
                              addressOfOperator(slot, 96), value))

tryReserveDecayRate(src, slot, value) ==
    IF src.toneParameterState.slot[slot].dr = value THEN Unchanged(src)
    ELSE Changed(ReserveForUsedIds(WithSlot(src, slot, "dr", value),
                     addressOfOperator(slot, 96), value))

tryReserveSustainRate(src, slot, value) ==
    IF src.toneParameterState.slot[slot].sr = value THEN Unchanged(src)
    ELSE Changed(ReserveForUsedIds(WithSlot(src, slot, "sr", value),
                     addressOfOperator(slot, 112), value))

tryReserveReleaseRate(src, slot, value) ==
    LET op == src.toneParameterState.slot[slot]
    IN IF op.rr = value THEN Unchanged(src)
       ELSE Changed(ReserveForUsedIds(WithSlot(src, slot, "rr", value),
                        addressOfOperator(slot, 128),
                        U8(BitOr(op.sl * 16, value))))

\* The overload packing the new sustain level without the release rate.
tryReserveSustainLevel_NoReleaseRate(src, slot, value) ==
    IF src.toneParameterState.slot[slot].sl = value THEN Unchanged(src)
    ELSE Changed(ReserveForUsedIds(WithSlot(src, slot, "sl", value),
                     addressOfOperator(slot, 128), U8(value * 16)))

tryReserveSustainLevel(src, slot, value) ==
    LET op == src.toneParameterState.slot[slot]
    IN IF op.sl = value THEN Unchanged(src)
       ELSE Changed(ReserveForUsedIds(WithSlot(src, slot, "sl", value),
                        addressOfOperator(slot, 128),
                        U8(BitOr(value * 16, op.rr))))

tryReserveTotalLevel(src, slot, value) ==
    IF src.toneParameterState.slot[slot].tl = value THEN Unchanged(src)
    ELSE Changed(ReserveForUsedIds(WithSlot(src, slot, "tl", value),
                     addressOfOperator(slot, 64), value))

tryReserveKeyScale(src, slot, value) ==
    LET op == src.toneParameterState.slot[slot]
        rawAr == IF op.ssgeg.isEnabled THEN kAttackRateMaximum ELSE op.ar
    IN IF op.ks = value THEN Unchanged(src)
       ELSE Changed(ReserveForUsedIds(WithSlot(src, slot, "ks", value),
                        addressOfOperator(slot, 80),
                        U8(BitOr(value * 64, rawAr))))

tryReserveMultiple(src, slot, value) ==
    LET op == src.toneParameterState.slot[slot]
        rawDt == convertDetuneAsRegisterValue(op.dt)
    IN IF op.ml = value THEN Unchanged(src)
       ELSE Changed(ReserveForUsedIds(WithSlot(src, slot, "ml", value),
                        addressOfOperator(slot, 48),
                        U8(BitOr(rawDt * 16, value))))

tryReserveDetune(src, slot, value) ==
    LET op == src.toneParameterState.slot[slot]
        rawDt == convertDetuneAsRegisterValue(value)
    IN IF op.dt = value THEN Unchanged(src)
       ELSE Changed(ReserveForUsedIds(WithSlot(src, slot, "dt", value),
                        addressOfOperator(slot, 48),
                        U8(BitOr(rawDt * 16, op.ml))))

\* std::visit over the ParameterVariant (plugin_processor.cpp:348-352): the
\* overload of the alternative held.
tryReserveParameterChange(src, parameter, garbage) ==
    LET kind == parameter.kind
        slot == parameter.slot
        value == parameter.value
    IN CASE kind = "PitchBendSensitivityValue" ->
                tryReservePitchBendSensitivity(src, value, garbage)
         [] kind = "FeedbackValue" -> tryReserveFeedback(src, value)
         [] kind = "AlgorithmValue" -> tryReserveAlgorithm(src, value)
         [] kind = "OperatorEnabledValue" ->
                tryReserveOperatorEnabled(src, slot, value)
         [] kind = "AttackRateValue" -> tryReserveAttackRate(src, slot, value)
         [] kind = "DecayRateValue" -> tryReserveDecayRate(src, slot, value)
         [] kind = "SustainRateValue" -> tryReserveSustainRate(src, slot, value)
         [] kind = "ReleaseRateValue" -> tryReserveReleaseRate(src, slot, value)
         [] kind = "SustainLevelValue" -> tryReserveSustainLevel(src, slot, value)
         [] kind = "TotalLevelValue" -> tryReserveTotalLevel(src, slot, value)
         [] kind = "KeyScaleValue" -> tryReserveKeyScale(src, slot, value)
         [] kind = "MultipleValue" -> tryReserveMultiple(src, slot, value)
         [] kind = "DetuneValue" -> tryReserveDetune(src, slot, value)

\* The value Parameter State holds for the parameter <<kind, slot>>.
StoredValue(src, kind, slot) ==
    LET tone == src.toneParameterState
        op == tone.slot[slot]
    IN CASE kind = "PitchBendSensitivityValue" -> src.pitchBendSensitivity
         [] kind = "FeedbackValue" -> tone.fb
         [] kind = "AlgorithmValue" -> tone.al
         [] kind = "OperatorEnabledValue" -> (IF op.isEnabled THEN 1 ELSE 0)
         [] kind = "AttackRateValue" -> op.ar
         [] kind = "DecayRateValue" -> op.dr
         [] kind = "SustainRateValue" -> op.sr
         [] kind = "ReleaseRateValue" -> op.rr
         [] kind = "SustainLevelValue" -> op.sl
         [] kind = "TotalLevelValue" -> op.tl
         [] kind = "KeyScaleValue" -> op.ks
         [] kind = "MultipleValue" -> op.ml
         [] kind = "DetuneValue" -> op.dt

(***************************************************************************)
(* audio::parameter::ParameterChangeQueue (parameter_change_queue.cpp).    *)
(* A queue value is [queue, map]: queue is the std::list from front to     *)
(* back, each element [node, parameter] with the identity of its list      *)
(* node, and map is the set of the pairs <<variant index, node>>: the node  *)
(* the iterator stored for that index refers to.                           *)
(***************************************************************************)
Pq(queue, map) == [queue |-> queue, map |-> map]

ParameterChangeQueueNew == Pq(<<>>, {})

Nodes(queue) == {queue[i].node : i \in 1..Len(queue)}

\* The variant indices of the entries of a list, front first.
IndicesOf(queue) == [i \in 1..Len(queue) |-> VariantIndex(queue[i].parameter)]

\* The parameters of the entries of a list, front first.
ParametersOf(queue) == [i \in 1..Len(queue) |-> queue[i].parameter]

\* A list node that is not in use (what the allocator hands out).
NewNode(queue) == CHOOSE n \in 0..Len(queue) : n \notin Nodes(queue)

\* std::list::erase(iterator): the element of that node leaves the list.
EraseNode(queue, node) == SelectSeq(queue, LAMBDA e : e.node # node)

\* std::unordered_map::insert_or_assign
InsertOrAssign(map, key, value) ==
    {e \in map : e[1] # key} \cup {<<key, value>>}

\* std::unordered_map::find(key) != end, and the value found
Contains(map, key) == \E e \in map : e[1] = key

Find(map, key) == (CHOOSE e \in map : e[1] = key)[2]

\* std::unordered_map::erase(key)
EraseKey(map, key) == {e \in map : e[1] # key}

\* enqueue without the erase of parameter_change_queue.cpp:14-16.
enqueue_NoErase(pq, parameter) ==
    LET node == NewNode(pq.queue)
    IN Pq(<<[node |-> node, parameter |-> parameter]>> \o pq.queue,
          InsertOrAssign(pq.map, VariantIndex(parameter), node))

\* ParameterChangeQueue::enqueue
enqueue(pq, parameter) ==
    LET typeIndex == VariantIndex(parameter)
        queue1 == IF Contains(pq.map, typeIndex)
                  THEN EraseNode(pq.queue, Find(pq.map, typeIndex))
                  ELSE pq.queue
        node == NewNode(queue1)
    IN Pq(<<[node |-> node, parameter |-> parameter]>> \o queue1,
          InsertOrAssign(pq.map, typeIndex, node))

\* ParameterChangeQueue::dequeue: [pq, ret, err]
dequeue(pq) ==
    IF pq.queue = <<>>
    THEN [pq |-> pq, ret |-> <<>>, err |-> "range_error"]
    ELSE LET back == pq.queue[Len(pq.queue)].parameter
         IN [pq |-> Pq(SubSeq(pq.queue, 1, Len(pq.queue) - 1),
                       EraseKey(pq.map, VariantIndex(back))),
             ret |-> <<back>>, err |-> "none"]

\* ParameterChangeQueue::clear
clear(pq) == Pq(<<>>, {})

\* ParameterChangeQueue::empty
empty(pq) == pq.queue = <<>>

(***************************************************************************)
(* The drain of the change queue at the head of PluginProcessor::fillBuffer *)
(* (plugin_processor.cpp:341-357), made under parameterQueueMutex_.        *)
(***************************************************************************)
\* The loop: while (!parameterChangeQueue_.empty()) { dequeue; visit }
RECURSIVE DequeueAndReserveAll(_, _, _, _)
DequeueAndReserveAll(src, pq, isUb, garbage) ==
    IF empty(pq)
    THEN [src |-> src, pq |-> pq, ub |-> isUb]
    ELSE LET d == dequeue(pq)
             r == tryReserveParameterChange(src, d.ret[1], garbage)
         IN DequeueAndReserveAll(r.src, d.pq, isUb \/ r.ub, garbage)

\* The loop left after its first pass.
drainParameterChanges_FirstOnly(src, pq, sink, garbage) ==
    IF empty(pq)
    THEN [src |-> src, pq |-> pq, sink |-> sink, ub |-> FALSE]
    ELSE LET d == dequeue(pq)
             r == tryReserveParameterChange(src, d.ret[1], garbage)
             t == triggerReservedChanges(r.src, sink)
         IN [src |-> t.src, pq |-> d.pq, sink |-> t.sink, ub |-> r.ub]

\* if (!empty) { loop; audioSource_->triggerReservedChanges(); }
drainParameterChanges(src, pq, sink, garbage) ==
    IF empty(pq)
    THEN [src |-> src, pq |-> pq, sink |-> sink, ub |-> FALSE]
    ELSE LET r == DequeueAndReserveAll(src, pq, FALSE, garbage)
             t == triggerReservedChanges(r.src, sink)
         IN [src |-> t.src, pq |-> r.pq, sink |-> t.sink, ub |-> r.ub]

(***************************************************************************)
(* The state machine.  The variables hold one Keyboard, the FmAudioSource  *)
(* that owns it and the PluginProcessor that owns the source.              *)
(***************************************************************************)
keyboard_ == Kb(noteOnQueue_, assignableIdQueue_, polyphony_)

audioSource_ ==
    Src(keyboard_, toneParameterState_, pitchBendSensitivity_, pitchBend_,
        noteOnMask_, reservedChanges_, rpnDetector_)

parameterChangeQueue_ == Pq(queue_, map_)

InstallQueue(pq) ==
    /\ queue_' = pq.queue
    /\ map_' = pq.map

KeyboardIs(kb) ==
    /\ noteOnQueue_ = kb.noteOnQueue
    /\ assignableIdQueue_ = kb.assignableIdQueue
    /\ polyphony_ = kb.polyphony

InstallKeyboard(kb) ==
    /\ noteOnQueue_' = kb.noteOnQueue
    /\ assignableIdQueue_' = kb.assignableIdQueue
    /\ polyphony_' = kb.polyphony

InstallSource(src) ==
    /\ InstallKeyboard(src.keyboard)
    /\ toneParameterState_' = src.toneParameterState
    /\ pitchBendSensitivity_' = src.pitchBendSensitivity
    /\ pitchBend_' = src.pitchBend
    /\ noteOnMask_' = src.noteOnMask
    /\ reservedChanges_' = src.reservedChanges
    /\ rpnDetector_' = src.rpnDetector

\* Nothing has been called yet.
ObserversInit ==
    /\ ret = <<>>
    /\ err = "none"
    /\ ub = FALSE
    /\ hist = "notes"

\* The threads that call into the plugin: the realtime callback, the UI
\* thread of the attachments and the caller of prepareToPlay.
Threads == {"realtime", "ui", "prepare"}

\* The members of a constructed FmAudioSource and PluginProcessor other than
\* the keyboard and Parameter State's tone.
MembersInit ==
    /\ pitchBendSensitivity_ \in {1, kDefaultPitchBendSensitivity}
    /\ pitchBend_ = 0
    /\ noteOnMask_ = 0
    /\ reservedChanges_ = <<>>
    /\ ym2608_ = <<>>
    /\ resampler_ = FALSE
    /\ pc = "idle"
    /\ midiMessages = <<>>
    /\ iter = 1
    /\ sampleStartPosition = 0
    /\ nEvents = 0
    /\ rendered = 0
    /\ unsent = <<>>
    /\ sentLog = {}
    /\ queue_ = ParameterChangeQueueNew.queue
    /\ map_ = ParameterChangeQueueNew.map
    /\ nParameters = 0
    /\ edited = {}
    /\ nOthers = 0
    /\ rpnDetector_ = MidiRPNDetectorNew
    /\ threadPc = [t \in Threads |-> 0]
    /\ held = [t \in Threads |-> {}]

\* A default-constructed PitchBendSensitivityValue (RangedValue<int, 1, 24>).
ValueInit ==
    /\ limits = [kMinimum |-> 1, kMaximum |-> 24, unsigned |-> FALSE]
    /\ value_ = 1

\* FmAudioSource::FmAudioSource and PluginProcessor::PluginProcessor, but for
\* the keyboard.
SourceInit ==
    /\ toneParameterState_ = defaultFmParameters
    /\ MembersInit
    /\ ValueInit

(***************************************************************************)
(* Spec: a Keyboard on its own, one action per public member function.     *)
(***************************************************************************)
Init ==
    /\ \E p \in 1..MaxPolyphony : KeyboardIs(KeyboardNew(p))
    /\ call = [op |-> "Keyboard"]
    /\ ObserversInit
    /\ SourceInit
    /\ pitchBendSensitivity_ = 1

TryNoteOn(note) ==
    /\ ~ub
    /\ \E out \in tryNoteOn(keyboard_, note) :
          /\ InstallKeyboard(out.kb)
          /\ ret' = out.ret
          /\ ub' = out.ub
    /\ call' = [op |-> "tryNoteOn", note |-> note]
    /\ err' = "none"
    /\ UNCHANGED <<hist, srcVars, ym2608_, cbVars, pqVars>>
    /\ UNCHANGED auxVars

TryNoteOff(note) ==
    /\ ~ub
    /\ LET out == tryNoteOff(keyboard_, note)
       IN /\ InstallKeyboard(out.kb)
          /\ ret' = out.ret
    /\ call' = [op |-> "tryNoteOff", note |-> note]
    /\ err' = "none"
    /\ UNCHANGED <<ub, hist, srcVars, ym2608_, cbVars, pqVars>>
    /\ UNCHANGED auxVars

SetPolyphony(newPolyphony) ==
    /\ ~ub
    /\ LET out == setPolyphony(keyboard_, newPolyphony)
       IN /\ InstallKeyboard(out.kb)
          /\ ret' = out.ret
          /\ err' = out.err
          /\ hist' = IF out.err # "none" THEN "failed"
                     ELSE IF hist = "notes" THEN "ok" ELSE hist
    /\ call' = [op |-> "setPolyphony", newPolyphony |-> newPolyphony]
    /\ UNCHANGED <<ub, srcVars, ym2608_, cbVars, pqVars>>
    /\ UNCHANGED auxVars

ForceAllNoteOff ==
    /\ ~ub
    /\ LET out == forceAllNoteOff(keyboard_)
       IN /\ InstallKeyboard(out.kb)
          /\ ret' = out.ret
    /\ call' = [op |-> "forceAllNoteOff"]
    /\ err' = "none"
    /\ hist' = IF hist = "notes" THEN "ok" ELSE hist
    /\ UNCHANGED <<ub, srcVars, ym2608_, cbVars, pqVars>>
    /\ UNCHANGED auxVars

Next ==
    \/ \E note \in Notes : TryNoteOn(note)
    \/ \E note \in Notes : TryNoteOff(note)
    \/ \E n \in 0..MaxPolyphony : SetPolyphony(n)
    \/ ForceAllNoteOff

Spec == Init /\ [][Next]_vars

(***************************************************************************)
(* Properties of the Keyboard (checked under Spec).                        *)
(***************************************************************************)
NoDuplicates(q) == \A i, j \in 1..Len(q) : q[i] = q[j] => i = j

SoundingIds == [i \in 1..Len(noteOnQueue_) |-> noteOnQueue_[i].assignId]

\* Every id of 0..polyphony()-1 is in exactly one of the two queues, once.
IdPartition ==
    /\ NoDuplicates(SoundingIds)
    /\ NoDuplicates(assignableIdQueue_)
    /\ Range(SoundingIds) \cap Range(assignableIdQueue_) = {}
    /\ Range(SoundingIds) \cup Range(assignableIdQueue_) = 0..(polyphony_ - 1)

\* C1: after any sequence of calls of tryNoteOn, tryNoteOff, setPolyphony(n > 0)
\* and forceAllNoteOff that all returned normally, the ids of the sounding
\* queue and of the free queue are disjoint, without duplicates, and together
\* exactly 0..polyphony()-1.
C1_IdPartitionAfterSuccessfulCalls ==
    (hist # "failed" /\ ~ub) => IdPartition

\* C2: on a keyboard constructed with polyphony N >= 1 and only ever given
\* tryNoteOn and tryNoteOff calls, after each call the number of sounding
\* assignments plus the number of free ids is N.
C2_CapacityInvariant ==
    hist = "notes" => Len(noteOnQueue_) + Len(assignableIdQueue_) = polyphony_

\* A tryNoteOn that found no free id and stole a voice, with nothing but
\* note calls before it.
C2_Witness ==
    /\ hist = "notes"
    /\ call.op = "tryNoteOn"
    /\ Len(ret) = 2
    /\ ~isNoteOn(ret[1].note)
    /\ Len(noteOnQueue_) = polyphony_

\* C3: whenever tryNoteOn is called with a nonzero-velocity note while no id
\* is free, exactly one sounding voice is evicted, it is the oldest of the
\* sounding queue (which is kept in the order of acceptance), and the new
\* note is assigned the evicted voice's id.
C3_FifoSteal ==
    [][(/\ call'.op = "tryNoteOn"
        /\ isNoteOn(call'.note)
        /\ assignableIdQueue_ = <<>>)
       => /\ ~ub'
          /\ noteOnQueue_ # <<>>
          /\ LET oldest == Head(noteOnQueue_)
                 assigned == NoteAssignment(oldest.assignId, call'.note)
             IN /\ ret' = <<NoteAssignment(oldest.assignId,
                                noteOff(oldest.note.channel,
                                        oldest.note.noteNumber)),
                            assigned>>
                /\ noteOnQueue_' = Append(Tail(noteOnQueue_), assigned)
                /\ assignableIdQueue_' = <<>>]_vars

\* The indices of the sounding voices with the note's channel and number.
SoundingSame(note) ==
    {i \in 1..Len(noteOnQueue_) :
        /\ noteOnQueue_[i].note.channel = note.channel
        /\ noteOnQueue_[i].note.noteNumber = note.noteNumber}

\* C4: if tryNoteOn is called with a nonzero-velocity note whose (channel,
\* note number) is already sounding on voice id v, the returned list begins
\* with a note-off assignment for id v, followed immediately by a note-on
\* assignment for the same note.
C4_Retrigger ==
    [][(/\ call'.op = "tryNoteOn"
        /\ isNoteOn(call'.note)
        /\ SoundingSame(call'.note) # {})
       => LET i == CHOOSE x \in SoundingSame(call'.note) :
                       \A y \in SoundingSame(call'.note) : x <= y
              v == noteOnQueue_[i].assignId
          IN /\ Len(ret') >= 2
             /\ ret'[1] = NoteAssignment(v, noteOff(call'.note.channel,
                                                    call'.note.noteNumber))
             /\ ret'[2].note = call'.note]_vars

\* C5: forceAllNoteOff returns one note-off assignment for every sounding
\* voice in FIFO order, leaves the sounding queue empty and returns every
\* evicted id to the free queue, which then holds all polyphony() ids.
C5_ForceAllNoteOffFreesIds ==
    [][(call'.op = "forceAllNoteOff" /\ IdPartition)
       => /\ ret' = NoteOffsOf(noteOnQueue_)
          /\ noteOnQueue_' = <<>>
          /\ Range(assignableIdQueue_') =
                 Range(assignableIdQueue_) \cup AssignIds(noteOnQueue_)
          /\ Len(assignableIdQueue_') = polyphony_']_vars

\* C6: setPolyphony(m) with 0 < m < p, p the current polyphony, succeeds: it
\* removes ids from the head of the free queue and, if fewer than p - m were
\* free, evicts the oldest sounding voices for the remainder, returning
\* exactly those as note-offs in FIFO order; afterwards |sounding| + |free| = m.
C6_ShrinkSucceeds ==
    [][(/\ call'.op = "setPolyphony"
        /\ call'.newPolyphony > 0
        /\ call'.newPolyphony < polyphony_
        /\ IdPartition)
       => LET d == polyphony_ - call'.newPolyphony
              fromFree == Min(d, Len(assignableIdQueue_))
              evicted == d - fromFree
          IN /\ err' = "none"
             /\ polyphony_' = call'.newPolyphony
             /\ assignableIdQueue_' = DropFirst(assignableIdQueue_, fromFree)
             /\ ret' = NoteOffsOf(SubSeq(noteOnQueue_, 1, evicted))
             /\ noteOnQueue_' = DropFirst(noteOnQueue_, evicted)
             /\ Len(noteOnQueue_') + Len(assignableIdQueue_')
                    = call'.newPolyphony]_vars

\* C7: in every state reached through the public Keyboard operations,
\* tryNoteOn with a nonzero-velocity note completes without reading the
\* front of an empty queue and returns a non-empty list whose last element
\* assigns the input note to an id of 0..polyphony()-1.
C7_TryNoteOnNeverFails ==
    (call.op = "tryNoteOn" /\ isNoteOn(call.note))
    => /\ ~ub
       /\ ret # <<>>
       /\ ret[Len(ret)].note = call.note
       /\ ret[Len(ret)].assignId \in 0..(polyphony_ - 1)

\* C8: whatever the sequence of Keyboard operations with valid arguments,
\* no setPolyphony call fails with std::range_error.
C8_NoRangeError ==
    err # "range_error"

(***************************************************************************)
(* SpecAudio: the PluginProcessor after construction.  prepareToPlay, then *)
(* realtime callbacks (fillBuffer), each with a MIDI buffer of its own.    *)
(* Parameter edits arrive from the editor at any time and wait in the      *)
(* change queue for the next callback.  MaxEvents bounds the MIDI events   *)
(* and the edits of a behaviour together.                                  *)
(***************************************************************************)
PitchWheelValues == {0, 8192, 16383}

\* The source takes no account of the channel of a pitch-wheel message and
\* matches notes by channel as the Keyboard of Spec does; the callbacks are
\* fed from one channel.
MidiMessages ==
    {NoteOnMessage(1, n, 100) : n \in NoteNumbers}
    \cup {NoteOffMessage(1, n) : n \in NoteNumbers}
    \cup {PitchWheelMessage(v) : v \in PitchWheelValues}

MidiEvents ==
    [samplePosition : 0..(NumSamples - 1), message : MidiMessages]

\* juce::MidiBuffer keeps its events in the order of their sample positions.
\* The buffer of a callback is revealed one event ahead of the loop: what
\* may follow an event at samplePosition p, while the behaviour has events
\* left, is no event or any event at p or later.
EventsFrom(p, handled) ==
    {<<>>} \cup
    (IF handled < MaxEvents
     THEN {<<e>> : e \in {x \in MidiEvents : x.samplePosition >= p}}
     ELSE {})

\* The edits the attachments make: <<kind, slot, raw value>>.  Feedback 9
\* and pitch-bend sensitivity 0 lie outside the range of their type.
EditInputs ==
    {<<"FeedbackValue", 0, 1>>, <<"FeedbackValue", 0, 9>>,
     <<"AttackRateValue", 0, 5>>, <<"AttackRateValue", 1, 6>>,
     <<"PitchBendSensitivityValue", 0, 0>>}

\* MIDI events of the current buffer that the loop has not reached yet.
Unhandled == Len(midiMessages) - (iter - 1)

InitAudio ==
    /\ KeyboardIs(KeyboardNew(kDefaultPolyphony))
    /\ call = [op |-> "PluginProcessor"]
    /\ ObserversInit
    /\ SourceInit

\* PluginProcessor::prepareToPlay: FmAudioSource::prepareToPlay, then the
\* resampler is created.
PrepareToPlay ==
    /\ ~ub
    /\ ~resampler_
    /\ pc = "idle"
    /\ LET r == triggerReservedChanges(prepareToPlayReserve(audioSource_), ym2608_)
       IN /\ InstallSource([r.src EXCEPT !.rpnDetector = rpnReset(r.src.rpnDetector)])
          /\ ym2608_' = r.sink
    /\ resampler_' = TRUE
    /\ call' = [op |-> "prepareToPlay"]
    /\ UNCHANGED <<ret, err, ub, hist, pc, midiMessages, iter,
                   sampleStartPosition, nEvents, rendered, unsent, sentLog,
                   pqVars>>
    /\ UNCHANGED auxVars

\* An attachment's callback (plugin_processor.cpp:122-212) and
\* PluginProcessor::reserveParameterChange: the raw value is cast to the
\* parameter type and enqueued.
ReserveParameterChange(kind, slot, raw) ==
    /\ ~ub
    /\ nParameters + nEvents + Unhandled < MaxEvents
    /\ LET value == parameterCast(kind, raw)
           parameter == IF kind \in SlotKinds
                        THEN SlotAndValue(kind, slot, value)
                        ELSE PlainValue(kind, value)
       IN /\ InstallQueue(enqueue(parameterChangeQueue_, parameter))
          /\ edited' = {e \in edited : ~(e.kind = kind /\ e.slot = slot)}
                        \cup {[kind |-> kind, slot |-> slot, raw |-> raw,
                               value |-> value]}
          /\ call' = [op |-> "reserveParameterChange", parameter |-> parameter]
    /\ nParameters' = nParameters + 1
    /\ UNCHANGED <<kbVars, srcVars, ym2608_, cbVars, ret, err, ub, hist,
                   nOthers>>
    /\ UNCHANGED auxVars

\* fillBuffer is entered (plugin_processor.cpp:329-339); without a resampler
\* it returns at once.
FillBufferBegin(first) ==
    /\ ~ub
    /\ resampler_
    /\ pc \in {"idle", "done"}
    /\ pc' = "drain"
    /\ midiMessages' = first
    /\ iter' = 1
    /\ sampleStartPosition' = 0
    /\ rendered' = 0
    /\ unsent' = <<>>
    /\ sentLog' = {}
    /\ call' = [op |-> "fillBuffer"]
    /\ UNCHANGED <<kbVars, srcVars, ym2608_, ret, err, ub, hist, resampler_,
                   nEvents, pqVars>>
    /\ UNCHANGED auxVars

\* The pending parameter changes are reflected
\* (plugin_processor.cpp:341-357).
FillBufferDrain ==
    /\ ~ub
    /\ pc = "drain"
    /\ \E garbage \in Garbage :
          LET r == drainParameterChanges(audioSource_, parameterChangeQueue_,
                                         ym2608_, garbage)
          IN /\ InstallSource(r.src)
             /\ InstallQueue(r.pq)
             /\ ym2608_' = r.sink
             /\ ub' = r.ub
    /\ edited' = {}
    /\ pc' = "loop"
    /\ call' = [op |-> "drain", pending |-> ParametersOf(queue_)]
    /\ UNCHANGED <<ret, err, hist, resampler_, midiMessages, iter,
                   sampleStartPosition, nEvents, rendered, unsent, sentLog,
                   nParameters, nOthers>>
    /\ UNCHANGED auxVars

\* One pass of the loop over the MIDI events up to the rendering
\* (plugin_processor.cpp:362-374).
FillBufferEvent ==
    /\ ~ub
    /\ pc = "loop"
    /\ iter <= Len(midiMessages)
    /\ LET position == midiMessages[iter].samplePosition
           message == midiMessages[iter].message
       IN \E garbage \in Garbage,
             following \in EventsFrom(position, nEvents + nParameters + 1) :
          \E r \in tryReserveChangeFromMidiMessage(audioSource_, message, garbage) :
             /\ midiMessages' = midiMessages \o following
             /\ InstallSource(r.src)
             /\ ub' = r.ub
             /\ unsent' = unsent \o
                   [i \in 1..(Len(r.src.reservedChanges) - Len(reservedChanges_))
                       |-> position]
             /\ pc' = IF ~r.ok THEN "loop"
                      ELSE IF /\ following # <<>>
                              /\ following[1].samplePosition = position
                           THEN "loop"
                           ELSE "flush"
             /\ call' = [op |-> "tryReserveChangeFromMidiMessage",
                         message |-> message, result |-> r.ok]
    /\ iter' = iter + 1
    /\ nEvents' = nEvents + 1
    /\ UNCHANGED <<ym2608_, ret, err, hist, resampler_, sampleStartPosition,
                   rendered, sentLog, pqVars>>
    /\ UNCHANGED auxVars

\* The rest of the pass (plugin_processor.cpp:376-381): the samples up to
\* the event are rendered, then the pending writes are triggered.
FillBufferFlush ==
    /\ ~ub
    /\ pc = "flush"
    /\ LET position == midiMessages[iter - 1].samplePosition
           r == triggerReservedChanges(audioSource_, ym2608_)
       IN /\ rendered' = rendered + (position - sampleStartPosition)
          /\ sampleStartPosition' = position
          /\ InstallSource(r.src)
          /\ ym2608_' = r.sink
          /\ sentLog' = sentLog \cup {<<p, rendered'>> : p \in Range(unsent)}
    /\ unsent' = <<>>
    /\ pc' = "loop"
    /\ call' = [op |-> "triggerReservedChanges"]
    /\ UNCHANGED <<ret, err, ub, hist, resampler_, midiMessages, iter, nEvents,
                   pqVars>>
    /\ UNCHANGED auxVars

\* The rest of the buffer is rendered and fillBuffer returns
\* (plugin_processor.cpp:384-389).
FillBufferRest ==
    /\ ~ub
    /\ pc = "loop"
    /\ iter > Len(midiMessages)
    /\ rendered' = rendered + (NumSamples - sampleStartPosition)
    /\ pc' = "done"
    /\ call' = [op |-> "fillBufferReturn"]
    /\ UNCHANGED <<kbVars, srcVars, ym2608_, ret, err, ub, hist, resampler_,
                   midiMessages, iter, sampleStartPosition, nEvents, unsent,
                   sentLog, pqVars>>
    /\ UNCHANGED auxVars

NextAudio ==
    \/ PrepareToPlay
    \/ \E e \in EditInputs : ReserveParameterChange(e[1], e[2], e[3])
    \/ \E first \in EventsFrom(0, nEvents + nParameters) : FillBufferBegin(first)
    \/ FillBufferDrain
    \/ FillBufferEvent
    \/ FillBufferFlush
    \/ FillBufferRest

SpecAudio == InitAudio /\ [][NextAudio]_vars

(***************************************************************************)
(* Properties of the realtime callback (checked under SpecAudio).          *)
(***************************************************************************)
\* C9: triggerReservedChanges gives every pending register write to the sink
\* in insertion order and leaves the pending list empty, so that each
\* reserved write reaches the sink exactly once.
C9_TriggerFlushesAndClears ==
    [][call'.op = "triggerReservedChanges"
       => /\ ym2608_' = ym2608_ \o reservedChanges_
          /\ reservedChanges_' = <<>>]_vars

\* C10: within one realtime callback the register writes queued for the MIDI
\* events at sample offset p are first given to the sink when exactly the
\* samples before p have been rendered: no sample at or after p is rendered
\* while one of them is unsent, and none is unsent when the callback returns.
C10_WritesSentAtTheirOffset ==
    /\ \A i \in 1..Len(unsent) : rendered <= unsent[i]
    /\ \A s \in sentLog : s[2] = s[1]
    /\ pc = "done" => unsent = <<>>

(***************************************************************************)
(* SpecQueue: a ParameterChangeQueue on its own, one action per public     *)
(* member function.                                                        *)
(***************************************************************************)
\* The parameters given to enqueue: three alternatives, one of them a
\* SlotAndValue with two slots.
QueueParameters ==
    {PlainValue("PitchBendSensitivityValue", v) : v \in {1, 2}}
    \cup {PlainValue("FeedbackValue", v) : v \in {0, 7}}
    \cup {SlotAndValue("AttackRateValue", n, v) : n \in {0, 2}, v \in {0, 31}}

InitQueue ==
    /\ KeyboardIs(KeyboardNew(kDefaultPolyphony))
    /\ call = [op |-> "ParameterChangeQueue"]
    /\ ObserversInit
    /\ SourceInit

Enqueue(parameter) ==
    /\ InstallQueue(enqueue(parameterChangeQueue_, parameter))
    /\ call' = [op |-> "enqueue", parameter |-> parameter,
                pending |-> Contains(map_, VariantIndex(parameter))]
    /\ ret' = <<>>
    /\ err' = "none"
    /\ UNCHANGED <<kbVars, srcVars, ym2608_, cbVars, ub, hist, nParameters,
                   edited, nOthers>>
    /\ UNCHANGED auxVars

Dequeue ==
    /\ LET d == dequeue(parameterChangeQueue_)
       IN /\ InstallQueue(d.pq)
          /\ ret' = d.ret
          /\ err' = d.err
    /\ call' = [op |-> "dequeue"]
    /\ UNCHANGED <<kbVars, srcVars, ym2608_, cbVars, ub, hist, nParameters,
                   edited, nOthers>>
    /\ UNCHANGED auxVars

Clear ==
    /\ InstallQueue(clear(parameterChangeQueue_))
    /\ call' = [op |-> "clear"]
    /\ ret' = <<>>
    /\ err' = "none"
    /\ UNCHANGED <<kbVars, srcVars, ym2608_, cbVars, ub, hist, nParameters,
                   edited, nOthers>>
    /\ UNCHANGED auxVars

NextQueue ==
    \/ \E parameter \in QueueParameters : Enqueue(parameter)
    \/ Dequeue
    \/ Clear

SpecQueue == InitQueue /\ [][NextQueue]_vars

\* C13: after any sequence of enqueue, dequeue and clear calls the queue
\* holds at most one entry per parameter kind (variant alternative), so its
\* length never exceeds the number of kinds; an enqueue of a kind that is
\* already pending removes the old entry and puts the new value at the
\* newest position (the front, the end opposite to the one dequeue takes).
C13_OneEntryPerKind ==
    /\ [](/\ NoDuplicates(IndicesOf(queue_))
          /\ Len(queue_) <= Len(ParameterVariant))
    /\ [][call'.op = "enqueue" =>
            LET index == VariantIndex(call'.parameter)
            IN ParametersOf(queue_') =
                  <<call'.parameter>> \o
                  SelectSeq(ParametersOf(queue_),
                            LAMBDA x : VariantIndex(x) # index)]_vars

\* An enqueue of a kind that was pending has replaced the pending entry
\* while an entry of another kind stays behind it.
C13_Witness ==
    /\ call.op = "enqueue"
    /\ call.pending
    /\ Len(queue_) >= 2
    /\ queue_[1].parameter = call.parameter

(***************************************************************************)
(* Properties of the parameter edit path (checked under SpecAudio).        *)
(***************************************************************************)
\* The source after the given parameters were applied one after another.
RECURSIVE AppliedInOrder(_, _)
AppliedInOrder(src, parameters) ==
    IF parameters = <<>> THEN src
    ELSE AppliedInOrder(tryReserveParameterChange(src, Head(parameters), 0).src,
                        Tail(parameters))

\* A sequence from its last element to its first.
Reversed(s) == [i \in 1..Len(s) |-> s[Len(s) + 1 - i]]

\* C11: within one realtime callback every parameter change that is pending
\* in the change queue when the drain starts is dequeued, translated (oldest
\* first) and written to the sink before any register write of a MIDI event
\* of that callback is queued and before any audio of that callback is
\* rendered.
C11_DrainBeforeMidiAndAudio ==
    /\ [][call'.op = "drain" =>
            LET after == AppliedInOrder(audioSource_,
                                        Reversed(ParametersOf(queue_)))
            IN /\ queue_' = <<>>
               /\ audioSource_' = after
               /\ queue_ # <<>> => ym2608_' = ym2608_ \o after.reservedChanges
               /\ rendered' = 0
               /\ unsent' = <<>>]_vars
    /\ [][(rendered' > rendered \/ Len(unsent') > Len(unsent))
            => pc \in {"loop", "flush"}]_vars

\* A drain that found two parameter changes pending.
C11_Witness ==
    /\ call.op = "drain"
    /\ Len(call.pending) >= 2
    /\ pc = "loop"

\* C12: for every distinct parameter (a plugin or tone parameter, or an
\* operator parameter of one slot) edited since the previous drain, the
\* drain of the next callback leaves Parameter State holding the latest value
\* enqueued for it, also when the same operator parameter of another slot
\* was edited in between.
C12_LatestValuePerParameter ==
    [][call'.op = "drain" =>
          \A e \in edited :
             StoredValue(audioSource_', e.kind, e.slot) = e.value]_vars

\* The raw value of an edit lies outside the range of its parameter type.
OutOfRange(e) == e.raw < kMinimum(e.kind) \/ kMaximum(e.kind) < e.raw

\* C15: an edit whose raw value lies outside the legal range of its
\* parameter changes no Parameter State field and queues no register write
\* when the next callback drains it; it is not clamped and applied.
C15_OutOfRangeEditRejected ==
    [][call'.op = "drain" =>
          /\ \A e \in edited :
                OutOfRange(e) =>
                   StoredValue(audioSource_', e.kind, e.slot)
                      = StoredValue(audioSource_, e.kind, e.slot)
          /\ (\A e \in edited : OutOfRange(e))
                => reservedChanges_' = reservedChanges_]_vars

(***************************************************************************)
(* SpecParam: an FmAudioSource whose member functions are called directly: *)
(* prepareToPlay, then note-on messages that start voices, then            *)
(* tryReserveParameterChange with values of every alternative.             *)
(***************************************************************************)
\* Voices started before the parameters are changed.
MaxSounding == 1
\* Calls of tryReserveParameterChange in one behaviour.
MaxParamCalls == 2

\* Two values of every alternative: the value of a constructed source and
\* another one.  The slot alternatives are given for operator slot 2.
ParamInputs ==
    {PlainValue("PitchBendSensitivityValue", v) : v \in {2, 12}} \cup
    {PlainValue("AlgorithmValue", v) : v \in {7, 4}} \cup
    {PlainValue("FeedbackValue", v) : v \in {0, 5}} \cup
    {SlotAndValue("OperatorEnabledValue", 2, v) : v \in {1, 0}} \cup
    {SlotAndValue("AttackRateValue", 2, v) : v \in {31, 10}} \cup
    {SlotAndValue("DecayRateValue", 2, v) : v \in {0, 9}} \cup
    {SlotAndValue("SustainRateValue", 2, v) : v \in {0, 8}} \cup
    {SlotAndValue("ReleaseRateValue", 2, v) : v \in {7, 3}} \cup
    {SlotAndValue("SustainLevelValue", 2, v) : v \in {0, 6}} \cup
    {SlotAndValue("TotalLevelValue", 2, v) : v \in {0, 100}} \cup
    {SlotAndValue("KeyScaleValue", 2, v) : v \in {0, 3}} \cup
    {SlotAndValue("MultipleValue", 2, v) : v \in {0, 11}} \cup
    {SlotAndValue("DetuneValue", 2, v) : v \in {0, -2}}

\* The writes a call appended to reservedChanges_.
Appended(before, after) == SubSeq(after, Len(before) + 1, Len(after))

\* FmAudioSource::tryReserveChangeFromMidiMessage called on the source.
TryReserveChangeFromMidiMessage(message) ==
    /\ ~ub
    /\ resampler_
    /\ \E garbage \in Garbage :
       \E r \in tryReserveChangeFromMidiMessage(audioSource_, message, garbage) :
          /\ InstallSource(r.src)
          /\ ub' = r.ub
          /\ call' = [op |-> "tryReserveChangeFromMidiMessage",
                      message |-> message, result |-> r.ok,
                      writes |-> Appended(reservedChanges_, r.src.reservedChanges),
                      sounding |-> noteOnQueue_, detector |-> rpnDetector_]
    /\ nEvents' = nEvents + 1
    /\ nOthers' = IF message.kind = "noteOn" THEN nOthers ELSE nOthers + 1
    /\ UNCHANGED <<ym2608_, ret, err, hist, resampler_, pc, midiMessages, iter,
                   sampleStartPosition, rendered, unsent, sentLog, queue_,
                   map_, nParameters, edited>>
    /\ UNCHANGED auxVars

\* FmAudioSource::tryReserveParameterChange called on the source.
TryReserveParameterChange(parameter) ==
    /\ ~ub
    /\ resampler_
    /\ nParameters < MaxParamCalls
    /\ \E garbage \in Garbage :
          LET r == tryReserveParameterChange(audioSource_, parameter, garbage)
          IN /\ InstallSource(r.src)
             /\ ub' = r.ub
             /\ call' = [op |-> "tryReserveParameterChange",
                         parameter |-> parameter, result |-> r.ok,
                         writes |-> Appended(reservedChanges_, r.src.reservedChanges),
                         sounding |-> noteOnQueue_]
    /\ nParameters' = nParameters + 1
    /\ UNCHANGED <<ym2608_, ret, err, hist, cbVars, queue_, map_, edited,
                   nOthers>>
    /\ UNCHANGED auxVars

\* The next voice is started: the notes go up from C4.
StartVoice ==
    /\ nParameters = 0
    /\ nEvents < MaxSounding
    /\ TryReserveChangeFromMidiMessage(
           NoteOnMessage(1, kC4NoteNumber + nEvents, 100))

NextParam ==
    \/ PrepareToPlay
    \/ StartVoice
    \/ \E parameter \in ParamInputs : TryReserveParameterChange(parameter)

SpecParam == InitAudio /\ [][NextParam]_vars

\* The parameter of the step's call of tryReserveParameterChange.
ParameterCall == call'.op = "tryReserveParameterChange"

\* C14: for every kind of parameter, tryReserveParameterChange returns
\* false exactly when the given value equals the value Parameter State
\* holds, and then Parameter State and the pending writes are unchanged; a
\* returned true leaves the value stored; and a call that repeats the call
\* before it returns false and queues no write.
C14_FalseExactlyWhenStored ==
    [][ParameterCall =>
          LET p == call'.parameter
              stored == StoredValue(audioSource_, p.kind, p.slot)
          IN /\ call'.result = (stored # p.value)
             /\ ~call'.result =>
                   /\ toneParameterState_' = toneParameterState_
                   /\ pitchBendSensitivity_' = pitchBendSensitivity_
                   /\ pitchBend_' = pitchBend_
                   /\ reservedChanges_' = reservedChanges_
             /\ StoredValue(audioSource_', p.kind, p.slot) = p.value
             /\ (call.op = "tryReserveParameterChange" /\ call.parameter = p)
                   => ~call'.result /\ call'.writes = <<>>]_vars

\* The second of two calls with one value that differs from the initial
\* state has returned false, with a voice sounding.
C14_Witness ==
    /\ call.op = "tryReserveParameterChange"
    /\ nParameters = 2
    /\ ~call.result
    /\ call.parameter.kind = "DecayRateValue"
    /\ call.parameter.value = 9
    /\ noteOnQueue_ # <<>>

\* 0xB0 plus the offset of the channel: the second bank of three channels
\* is reached through the A1 pin.
FeedbackAlgorithmWrite(channel, fb, al) ==
    [pinA1 |-> channel >= 3,
     address |-> 176 + (channel % 3),
     data |-> fb * 8 + al]

\* C16: the writes queued by a change of the feedback or of the algorithm
\* are, for each voice id, one write to 0xB0 plus the channel offset with
\* the data byte (feedback << 3) | algorithm of Parameter State after the
\* change, in whichever order the two were set.
C16_FeedbackAlgorithmByte ==
    [][(ParameterCall /\ call'.parameter.kind \in {"FeedbackValue", "AlgorithmValue"}
           /\ call'.result) =>
          /\ call'.writes =
                [i \in 1..kMaxChannelCount |->
                    FeedbackAlgorithmWrite(i - 1, toneParameterState_'.fb,
                                           toneParameterState_'.al)]
          /\ toneParameterState_'.fb \in 0..7
          /\ toneParameterState_'.al \in 0..7]_vars

\* The algorithm was changed after the feedback had been changed.
C16_Witness ==
    /\ call.op = "tryReserveParameterChange"
    /\ call.parameter = PlainValue("AlgorithmValue", 4)
    /\ call.result
    /\ toneParameterState_.fb = 5
    /\ Len(call.writes) = kMaxChannelCount

(***************************************************************************)
(* SpecSsgeg: SpecParam from a Parameter State in which SSG-EG is enabled  *)
(* for operator slot 2.  Ssgeg::isEnabled is a field of FmParameters        *)
(* (parameter.h:246) that fm_audio_source.cpp reads at lines 292, 472 and   *)
(* 710 and that no ParameterVariant alternative writes: the state is an    *)
(* input of the functions that read it.                                    *)
(***************************************************************************)
SsgegEnabledParameters ==
    [defaultFmParameters EXCEPT !.slot[2].ssgeg.isEnabled = TRUE]

InitSsgeg ==
    /\ KeyboardIs(KeyboardNew(kDefaultPolyphony))
    /\ call = [op |-> "PluginProcessor"]
    /\ ObserversInit
    /\ toneParameterState_ = SsgegEnabledParameters
    /\ MembersInit
    /\ ValueInit

SpecSsgeg == InitSsgeg /\ [][NextParam]_vars

MaxNoteOns == 7
\* Calls in one behaviour that are no note-on.
MaxOtherCalls == 2

\* Note-on messages handled so far.
NoteOnCount == nEvents - nOthers

OtherMessages ==
    {PitchWheelMessage(v) : v \in {0, 16383}} \cup
    {NoteOffMessage(1, kC4NoteNumber + n) : n \in {0, 1, MaxNoteOns}}

OtherParameters ==
    {PlainValue("PitchBendSensitivityValue", v) : v \in {2, 12}} \cup
    {SlotAndValue("OperatorEnabledValue", 2, 0)}

NextNoteOn ==
    /\ NoteOnCount < MaxNoteOns
    /\ TryReserveChangeFromMidiMessage(
           NoteOnMessage(1, kC4NoteNumber + NoteOnCount, 100))

OtherMessage(message) ==
    /\ nOthers + nParameters < MaxOtherCalls
    /\ TryReserveChangeFromMidiMessage(message)

OtherParameter(parameter) ==
    /\ nOthers + nParameters < MaxOtherCalls
    /\ TryReserveParameterChange(parameter)

NextNotes ==
    \/ PrepareToPlay
    \/ NextNoteOn
    \/ \E message \in OtherMessages : OtherMessage(message)
    \/ \E parameter \in OtherParameters : OtherParameter(parameter)

SpecNotes == InitAudio /\ [][NextNotes]_vars

\* The Block/F-Num2 write and then the F-Num1 write of voice id, for the
\* block and F-Number the note has at the given bend and sensitivity.
PitchPair(id, noteNumber, pitchBend, pbs) ==
    LET blockAndFNum ==
            calculateFNumberAndBlockFromCent(calculateCent(noteNumber, pitchBend, pbs))
    IN <<[pinA1 |-> id >= 3, address |-> 164 + (id % 3),
          data |-> blockAndFNum \div 256],
         [pinA1 |-> id >= 3, address |-> 160 + (id % 3),
          data |-> blockAndFNum % 256]>>

RECURSIVE PitchPairs(_, _, _)
PitchPairs(assignments, pitchBend, pbs) ==
    IF assignments = <<>> THEN <<>>
    ELSE PitchPair(Head(assignments).assignId, Head(assignments).note.noteNumber,
                   pitchBend, pbs)
         \o PitchPairs(Tail(assignments), pitchBend, pbs)

\* C18: a change of the pitch-bend sensitivity and a pitch-wheel message
\* queue one pitch register pair, Block/F-Num2 then F-Num1, for each
\* sounding voice, oldest voice first, and nothing else: 2k writes for k
\* sounding voices.
C18_PitchPairPerSoundingVoice ==
    [][((ParameterCall /\ call'.parameter.kind = "PitchBendSensitivityValue"
            /\ call'.result)
        \/ (call'.op = "tryReserveChangeFromMidiMessage"
            /\ call'.message.kind = "pitchWheel")) =>
          /\ Len(call'.writes) = 2 * Len(noteOnQueue_)
          /\ call'.writes =
                PitchPairs(noteOnQueue_, pitchBend_', pitchBendSensitivity_')]_vars

\* The sensitivity was changed with five voices sounding, the oldest of
\* them on id 2, and id 1 free.
C18_Witness ==
    /\ call.op = "tryReserveParameterChange"
    /\ call.parameter.kind = "PitchBendSensitivityValue"
    /\ call.result
    /\ Len(call.sounding) = 5
    /\ call.sounding[1].assignId = 2
    /\ Len(call.writes) = 10
    /\ 1 \in Range(assignableIdQueue_)

\* The channel bits of a voice id in the trigger register: 0, 1, 2 for the
\* first bank and 4, 5, 6 for the second.
ChannelBits(id) == IF id < 3 THEN id ELSE id + 1

\* The operator-enable mask: bit 4 + n for every enabled operator slot n.
EnableMask(tone) ==
    (IF tone.slot[0].isEnabled THEN 16 ELSE 0)
    + (IF tone.slot[1].isEnabled THEN 32 ELSE 0)
    + (IF tone.slot[2].isEnabled THEN 64 ELSE 0)
    + (IF tone.slot[3].isEnabled THEN 128 ELSE 0)

TriggerWrite(data) == [pinA1 |-> FALSE, address |-> 40, data |-> data]

\* C19: a note-on accepted on voice id v queues the pitch register pair of
\* v for the note and the current bend, then the 0x28 write with v's
\* channel bits and the operator-enable mask; when it steals a voice, the
\* 0x28 write with the stolen voice's channel bits alone comes first.  At
\* polyphony 6 the first note-on gets id 0, and the 7th note-on of distinct
\* notes evicts the voice on id 0.
C19_NoteOnWrites ==
    [][(call'.op = "tryReserveChangeFromMidiMessage"
           /\ call'.message.kind = "noteOn" /\ call'.result) =>
          LET new == noteOnQueue_'[Len(noteOnQueue_')]
              v == new.assignId
              steals == Len(noteOnQueue_) = polyphony_
              stolen == noteOnQueue_[1].assignId
          IN /\ new.note.noteNumber = call'.message.noteNumber
             /\ call'.writes =
                   (IF steals THEN <<TriggerWrite(ChannelBits(stolen))>> ELSE <<>>)
                   \o PitchPair(v, new.note.noteNumber, pitchBend_,
                                pitchBendSensitivity_)
                   \o <<TriggerWrite(ChannelBits(v)
                                     + EnableMask(toneParameterState_))>>
             /\ steals => v = stolen
             /\ (NoteOnCount = 0 /\ nOthers = 0) => v = 0
             /\ (NoteOnCount = 6 /\ nOthers = 0) => (steals /\ stolen = 0)]_vars

\* The 7th note-on has evicted the voice on id 0, with an operator disabled
\* before the notes.
C19_Witness ==
    /\ call.op = "tryReserveChangeFromMidiMessage"
    /\ call.message.kind = "noteOn"
    /\ call.result
    /\ nEvents = 7
    /\ nOthers = 0
    /\ Len(call.writes) = 4
    /\ ~toneParameterState_.slot[2].isEnabled
    /\ noteOnQueue_[Len(noteOnQueue_)].assignId = 0

\* C20: tryReserveChangeFromMidiMessage returns true if and only if the
\* message appended at least one write to the pending list.
C20_TrueIffWriteAppended ==
    [][call'.op = "tryReserveChangeFromMidiMessage" =>
          (call'.result <=> call'.writes # <<>>)]_vars

(***************************************************************************)
(* SpecThreads: the threads of the plugin and the three mutexes,           *)
(* parameterMutex_, reservedChangesMutex_ (FmAudioSource) and              *)
(* parameterQueueMutex_ (PluginProcessor).  Each function is the sequence  *)
(* of its lock, unlock, member access and chip instructions, in the order  *)
(* of the source, each with its source line; a goto gives the relative     *)
(* targets of a branch whose condition is data.                            *)
(***************************************************************************)
Ins(line, op, arg) == [line |-> line, op |-> op, arg |-> arg]

LockIns(line, mutexes) == <<Ins(line, "lock", mutexes)>>
UnlockIns(line, mutexes) == <<Ins(line, "unlock", mutexes)>>
ReadIns(line, member) == <<Ins(line, "read", member)>>
WriteIns(line, member) == <<Ins(line, "write", member)>>
ChipIns(line, what) == <<Ins(line, "ym2608", what)>>
GotoIns(line, offsets) == <<Ins(line, "goto", offsets)>>

\* if (...) { a } else { b }
Either(line, a, b) ==
    GotoIns(line, {1, Len(a) + 2}) \o a \o GotoIns(line, {Len(b) + 1}) \o b

\* while / for (...) { body }
While(line, body) ==
    GotoIns(line, {1, Len(body) + 2}) \o body \o GotoIns(line, {-(Len(body) + 1)})

\* reservePitchChange(const NoteAssignment&) whose guard of parameterMutex_
\* lives to the end of the function.
reservePitchChangeOfIns_KeepsParameterLock ==
    Either(658, <<>>,
        LockIns(662, {"parameterMutex_"})
        \o ReadIns(663, "pitchBendSensitivity_")
        \o ReadIns(666, "pitchBend_")
        \o LockIns(673, {"reservedChangesMutex_"})
        \o WriteIns(674, "reservedChanges_")
        \o WriteIns(677, "reservedChanges_")
        \o UnlockIns(682, {"reservedChangesMutex_"}))

\* bool reservePitchChange(const NoteAssignment&) (fm_audio_source.cpp:657-682)
reservePitchChangeOfIns ==
    Either(658, <<>>,
        LockIns(662, {"parameterMutex_"})
        \o ReadIns(663, "pitchBendSensitivity_")
        \o UnlockIns(664, {"parameterMutex_"})
        \o ReadIns(666, "pitchBend_")
        \o LockIns(673, {"reservedChangesMutex_"})
        \o WriteIns(674, "reservedChanges_")
        \o WriteIns(677, "reservedChanges_")
        \o UnlockIns(682, {"reservedChangesMutex_"}))

\* bool reservePitchChange() (fm_audio_source.cpp:649-655)
reservePitchChangeIns ==
    ReadIns(651, "keyboard_") \o While(651, reservePitchChangeOfIns)

\* reserveNoteOn (fm_audio_source.cpp:624-635)
reserveNoteOnIns ==
    Either(625, <<>>,
        LockIns(630, {"reservedChangesMutex_"})
        \o WriteIns(631, "reservedChanges_")
        \o UnlockIns(635, {"reservedChangesMutex_"}))

\* reserveNoteOff (fm_audio_source.cpp:637-647)
reserveNoteOffIns ==
    Either(638, <<>>,
        LockIns(642, {"reservedChangesMutex_"})
        \o WriteIns(643, "reservedChanges_")
        \o UnlockIns(647, {"reservedChangesMutex_"}))

\* triggerReservedChanges (fm_audio_source.cpp:610-622)
triggerReservedChangesIns ==
    LockIns(611, {"reservedChangesMutex_"})
    \o While(613, ReadIns(613, "reservedChanges_") \o ChipIns(615, "write"))
    \o UnlockIns(622, {"reservedChangesMutex_"})

\* tryReserveParameterChange(PitchBendSensitivityValue)
\* (fm_audio_source.cpp:192-200)
tryReservePitchBendSensitivityIns ==
    LockIns(194, {"parameterMutex_"})
    \o WriteIns(195, "pitchBendSensitivity_")
    \o UnlockIns(197, {"parameterMutex_"})
    \o Either(195, <<>>, reservePitchChangeIns)

\* tryReserveParameterChange(FeedbackValue) (fm_audio_source.cpp:202-221).
\* The overloads of the other tone and operator parameters take the same
\* std::scoped_lock of both mutexes for their whole body.
tryReserveFeedbackIns ==
    LockIns(204, {"parameterMutex_", "reservedChangesMutex_"})
    \o WriteIns(206, "toneParameterState_")
    \o Either(206, <<>>,
          ReadIns(210, "keyboard_")
          \o While(210, ReadIns(218, "toneParameterState_")
                        \o WriteIns(216, "reservedChanges_")))
    \o UnlockIns(221, {"parameterMutex_", "reservedChangesMutex_"})

\* tryReserveChangeFromMidiMessage (fm_audio_source.cpp:551-608)
tryReserveChangeFromMidiMessageIns ==
    Either(555,
        \* a controller message that completes the sensitivity RPN
        Either(560, <<>>,
            LockIns(571, {"parameterMutex_"})
            \o WriteIns(572, "pitchBendSensitivity_")
            \o UnlockIns(574, {"parameterMutex_"})
            \o reservePitchChangeIns),
        Either(585,
            WriteIns(586, "keyboard_")
            \o While(589, Either(590,
                              reservePitchChangeOfIns \o reserveNoteOnIns,
                              reserveNoteOffIns)),
            Either(597,
                WriteIns(598, "keyboard_") \o Either(600, reserveNoteOffIns, <<>>),
                Either(601,
                    WriteIns(603, "pitchBend_") \o reservePitchChangeIns,
                    <<>>))))

\* PluginProcessor::fillBuffer past the resampler check
\* (plugin_processor.cpp:341-389)
fillBufferIns ==
    LockIns(343, {"parameterQueueMutex_"})
    \o ReadIns(345, "parameterChangeQueue_")
    \o Either(345, <<>>,
          WriteIns(347, "parameterChangeQueue_")
          \o Either(350, tryReservePitchBendSensitivityIns, tryReserveFeedbackIns)
          \o While(346,
                WriteIns(347, "parameterChangeQueue_")
                \o Either(350, tryReservePitchBendSensitivityIns,
                          tryReserveFeedbackIns))
          \o triggerReservedChangesIns)
    \o UnlockIns(357, {"parameterQueueMutex_"})
    \o While(362,
          tryReserveChangeFromMidiMessageIns
          \o Either(366, <<>>,
                ChipIns(378, "generate") \o triggerReservedChangesIns))
    \o ChipIns(388, "generate")

\* PluginProcessor::reserveParameterChange (plugin_processor.cpp:430-434)
reserveParameterChangeIns ==
    LockIns(432, {"parameterQueueMutex_"})
    \o WriteIns(433, "parameterChangeQueue_")
    \o UnlockIns(434, {"parameterQueueMutex_"})

\* FmAudioSource::prepareToPlay with reserveUpdatingAllToneParameter
\* (fm_audio_source.cpp:134-152, 684-740)
prepareToPlayIns ==
    ChipIns(136, "reset")
    \o LockIns(139, {"reservedChangesMutex_"})
    \o WriteIns(142, "reservedChanges_")
    \o UnlockIns(143, {"reservedChangesMutex_"})
    \o ReadIns(685, "keyboard_")
    \o While(685,
          ReadIns(697, "toneParameterState_")
          \o LockIns(693, {"reservedChangesMutex_"})
          \o WriteIns(694, "reservedChanges_")
          \o UnlockIns(695, {"reservedChangesMutex_"}))
    \o LockIns(726, {"reservedChangesMutex_"})
    \o ReadIns(728, "toneParameterState_")
    \o WriteIns(727, "reservedChanges_")
    \o UnlockIns(730, {"reservedChangesMutex_"})
    \o ReadIns(736, "toneParameterState_")
    \o triggerReservedChangesIns

\* What each thread runs, again and again.
Program(t) ==
    CASE t = "realtime" -> fillBufferIns
      [] t = "ui" -> reserveParameterChangeIns
      [] t = "prepare" -> prepareToPlayIns

Running(t) == threadPc[t] \in 1..Len(Program(t))

Current(t) == Program(t)[threadPc[t]]

At(t, op) == Running(t) /\ Current(t).op = op

threadsFrame ==
    <<kbVars, srcVars, ym2608_, call, ret, err, ub, hist, pc, midiMessages,
      iter, sampleStartPosition, nEvents, rendered, unsent, sentLog, pqVars,
      limits, value_>>

\* The thread goes on at index next; past the end the function returns.
\* The resampler exists once prepareToPlay has returned.
GoOn(t, next) ==
    LET returns == next > Len(Program(t))
    IN /\ threadPc' = [threadPc EXCEPT ![t] = IF returns THEN 0 ELSE next]
       /\ resampler_' = (resampler_ \/ (returns /\ t = "prepare"))
       /\ UNCHANGED threadsFrame

\* The thread calls its function; fillBuffer returns at once without a
\* resampler (plugin_processor.cpp:333-335).
ThreadCall(t) ==
    /\ threadPc[t] = 0
    /\ t = "realtime" => resampler_
    /\ GoOn(t, 1)
    /\ UNCHANGED held

\* std::lock_guard / std::scoped_lock: the thread waits until every mutex
\* is free.
ThreadLock(t) ==
    /\ At(t, "lock")
    /\ \A u \in Threads : held[u] \cap Current(t).arg = {}
    /\ held' = [held EXCEPT ![t] = @ \cup Current(t).arg]
    /\ GoOn(t, threadPc[t] + 1)

ThreadUnlock(t) ==
    /\ At(t, "unlock")
    /\ held' = [held EXCEPT ![t] = @ \ Current(t).arg]
    /\ GoOn(t, threadPc[t] + 1)

\* A read or a write of a member.
ThreadAccess(t) ==
    /\ At(t, "read") \/ At(t, "write")
    /\ GoOn(t, threadPc[t] + 1)
    /\ UNCHANGED held

\* A call into the chip: reset, a register write, or sample generation.
ThreadChip(t) ==
    /\ At(t, "ym2608")
    /\ GoOn(t, threadPc[t] + 1)
    /\ UNCHANGED held

ThreadGoto(t) ==
    /\ At(t, "goto")
    /\ \E offset \in Current(t).arg : GoOn(t, threadPc[t] + offset)
    /\ UNCHANGED held

InitThreads == InitAudio

NextThreads ==
    \E t \in Threads :
        \/ ThreadCall(t)
        \/ ThreadLock(t)
        \/ ThreadUnlock(t)
        \/ ThreadAccess(t)
        \/ ThreadChip(t)
        \/ ThreadGoto(t)

SpecThreads == InitThreads /\ [][NextThreads]_vars

\* C21: no thread holds a mutex of the core while it delivers a register
\* write to the chip.
C21_NoLockWhileDelivering ==
    \A t \in Threads :
        (At(t, "ym2608") /\ Current(t).arg = "write") => held[t] = {}

\* The mutex that guards a member, after the source's use of it.
MutexOf(member) ==
    CASE member \in {"pitchBendSensitivity_", "toneParameterState_", "pitchBend_"}
            -> "parameterMutex_"
      [] member = "reservedChanges_" -> "reservedChangesMutex_"
      [] member = "parameterChangeQueue_" -> "parameterQueueMutex_"

Guarded ==
    {"pitchBendSensitivity_", "toneParameterState_", "pitchBend_",
     "reservedChanges_"}

Accessing(t, member) ==
    /\ At(t, "read") \/ At(t, "write")
    /\ Current(t).arg = member

\* Two threads are each about to access the member, one of them to write
\* it, and they hold no mutex in common.
Race(t, u, member) ==
    /\ t # u
    /\ Accessing(t, member)
    /\ Accessing(u, member)
    /\ At(t, "write") \/ At(u, "write")
    /\ held[t] \cap held[u] = {}

\* C22: every access to a field of Parameter State and to the pending write
\* list is made by a thread that holds the member's mutex, and no two
\* threads are at unsynchronised accesses to one member of which one is a
\* write.
C22_AccessesGuarded ==
    /\ \A t \in Threads : \A member \in Guarded :
          Accessing(t, member) => MutexOf(member) \in held[t]
    /\ \A t, u \in Threads : \A member \in Guarded : ~Race(t, u, member)

(***************************************************************************)
(* Further properties of the Keyboard.                                     *)
(***************************************************************************)
\* C23: tryNoteOff matches a sounding voice by channel and note number only:
\* for an input note of any velocity, zero or not, for which a voice sounds,
\* the call returns the note-off of that voice with its id, removes the voice
\* from the sounding queue and appends its id to the free queue.
C23_NoteOffIgnoresVelocity ==
    [][(/\ call'.op = "tryNoteOff"
        /\ SoundingSame(call'.note) # {})
       => \E i \in SoundingSame(call'.note) :
             LET found == noteOnQueue_[i]
             IN /\ ret' = <<NoteAssignment(found.assignId,
                                noteOff(found.note.channel,
                                        found.note.noteNumber))>>
                /\ noteOnQueue_' = RemoveAt(noteOnQueue_, i)
                /\ assignableIdQueue_' =
                       Append(assignableIdQueue_, found.assignId)]_vars

\* C30: a setPolyphony call that fails, with std::invalid_argument for 0 or
\* with std::range_error, leaves polyphony() and both queues as they were
\* before the call.
C30_FailedSetPolyphonyChangesNothing ==
    [][(call'.op = "setPolyphony" /\ err' # "none")
       => UNCHANGED <<polyphony_, noteOnQueue_, assignableIdQueue_>>]_vars

\* The ids whose latest returned assignment is a note-on are those of the
\* sounding queue.  The assignments of one call, taken in order from that
\* set: a note-on is for an id outside it, a note-off for an id inside it.
RECURSIVE Alternates(_, _, _)
Alternates(on, assignments, after) ==
    IF assignments = <<>>
    THEN on = after
    ELSE LET a == Head(assignments)
         IN IF isNoteOn(a.note)
            THEN /\ a.assignId \notin on
                 /\ Alternates(on \cup {a.assignId}, Tail(assignments), after)
            ELSE /\ a.assignId \in on
                 /\ Alternates(on \ {a.assignId}, Tail(assignments), after)

\* C29: for each voice id the assignments returned over time by tryNoteOn,
\* tryNoteOff, setPolyphony and forceAllNoteOff alternate between note-on
\* and note-off, starting with a note-on: no id is handed out while it
\* sounds, and no note-off is returned for an id that does not sound.
C29_AssignmentsAlternate ==
    [][(call'.op \in {"tryNoteOn", "tryNoteOff", "setPolyphony",
                      "forceAllNoteOff"})
       => Alternates(AssignIds(noteOnQueue_), ret',
                     AssignIds(noteOnQueue_'))]_vars

(***************************************************************************)
(* SpecGrow: a Keyboard that plays notes of one channel, a few at a time,  *)
(* and whose polyphony is kept or raised, up to MaxGrowth above the        *)
(* constructor's largest.                                                  *)
(***************************************************************************)
MaxGrowth == 2
\* Notes are started while fewer voices than this sound.
MaxGrowSounding == 2

GrowNotes == {Note(1, n, v) : n \in NoteNumbers, v \in Velocities}

GrowNoteOn(note) ==
    /\ Len(noteOnQueue_) < MaxGrowSounding
    /\ TryNoteOn(note)

NextGrow ==
    \/ \E note \in GrowNotes : GrowNoteOn(note)
    \/ \E note \in GrowNotes : TryNoteOff(note)
    \/ \E n \in polyphony_..(MaxPolyphony + MaxGrowth) : SetPolyphony(n)
    \/ ForceAllNoteOff

SpecGrow == Init /\ [][NextGrow]_vars

\* C27: setPolyphony(m) with m above the current polyphony p, when the used
\* ids are exactly 0..p-1, succeeds, returns no eviction, leaves the sounding
\* queue as it is and adds exactly the ids p..m-1 to the free queue, in
\* ascending order.
C27_GrowAddsNewIdsAscending ==
    [][(/\ call'.op = "setPolyphony"
        /\ call'.newPolyphony > polyphony_
        /\ usedAssignIds(keyboard_) = 0..(polyphony_ - 1))
       => LET p == polyphony_
              m == call'.newPolyphony
          IN /\ err' = "none"
             /\ ret' = <<>>
             /\ polyphony_' = m
             /\ noteOnQueue_' = noteOnQueue_
             /\ Len(assignableIdQueue_') = Len(assignableIdQueue_) + (m - p)
             /\ SelectSeq(assignableIdQueue_', LAMBDA id : id < p)
                    = assignableIdQueue_
             /\ SelectSeq(assignableIdQueue_', LAMBDA id : id >= p)
                    = [i \in 1..(m - p) |-> p + i - 1]]_vars

\* A keyboard with a sounding voice has just grown by two voices or more.
C27_Witness ==
    /\ call.op = "setPolyphony"
    /\ err = "none"
    /\ noteOnQueue_ # <<>>
    /\ usedAssignIds(keyboard_) = 0..(polyphony_ - 1)
    /\ \E i \in 1..Len(assignableIdQueue_) :
          /\ i < Len(assignableIdQueue_)
          /\ assignableIdQueue_[i] >= MaxPolyphony
          /\ assignableIdQueue_[i + 1] = assignableIdQueue_[i] + 1

(***************************************************************************)
(* Further properties of the translation of MIDI messages (SpecNotes).     *)
(***************************************************************************)
\* C24: a note-off MIDI message for a (channel, note number) that no voice
\* sounds leaves the sounding queue and the free queue as they are, appends
\* no write to the pending list, and tryReserveChangeFromMidiMessage
\* returns false.
C24_UnmatchedNoteOffIsNoOp ==
    [][(/\ call'.op = "tryReserveChangeFromMidiMessage"
        /\ call'.message.kind = "noteOff"
        /\ SoundingSame(NoteOfMessage(call'.message)) = {})
       => /\ UNCHANGED <<noteOnQueue_, assignableIdQueue_, reservedChanges_>>
          /\ ~call'.result]_vars

\* A note-off message has been handled for a note that no voice sounded,
\* while other voices sounded.
C24_Witness ==
    /\ call.op = "tryReserveChangeFromMidiMessage"
    /\ call.message.kind = "noteOff"
    /\ call.sounding # <<>>
    /\ \A i \in 1..Len(call.sounding) :
          call.sounding[i].note.noteNumber # call.message.noteNumber
    /\ ~call.result
    /\ noteOnQueue_ = call.sounding

(***************************************************************************)
(* SpecTranslate: the FmAudioSource of SpecNotes with a keyboard of more   *)
(* voices than the chip has channels, which hands out the ids from         *)
(* kMaxChannelCount on.                                                    *)
(***************************************************************************)
\* Voices of the keyboard above kMaxChannelCount.
MaxExtraVoices == 1

InitTranslate ==
    /\ \E extra \in 1..MaxExtraVoices :
          KeyboardIs(KeyboardNew(kMaxChannelCount + extra))
    /\ call = [op |-> "PluginProcessor"]
    /\ ObserversInit
    /\ SourceInit

SpecTranslate == InitTranslate /\ [][NextNotes]_vars

\* The source with the voices and free ids of the hardware channels only.
HardwareVoices ==
    [audioSource_ EXCEPT !.keyboard =
        Kb(SelectSeq(noteOnQueue_, LAMBDA a : a.assignId < kMaxChannelCount),
           SelectSeq(assignableIdQueue_, LAMBDA id : id < kMaxChannelCount),
           polyphony_)]

MaxOvershoot == 2

RangedKinds == {"PitchBendSensitivityValue", "KeyScaleValue", "DetuneValue"}

Instantiation(kind) ==
    [kMinimum |-> kMinimum(kind), kMaximum |-> kMaximum(kind),
     unsigned |-> kind = "KeyScaleValue"]

\* The arguments a call is given: values of T around the range.
Arguments ==
    {v \in (limits.kMinimum - MaxOvershoot)..(limits.kMaximum + MaxOvershoot) :
        limits.unsigned => v >= 0}

rangedFrame ==
    <<kbVars, srcVars, ym2608_, ret, err, ub, hist, cbVars, pqVars, threadPc,
      held, limits>>

\* RangedValue(): the value is Minimum.
InitRanged ==
    /\ KeyboardIs(KeyboardNew(kDefaultPolyphony))
    /\ ObserversInit
    /\ toneParameterState_ = defaultFmParameters
    /\ MembersInit
    /\ \E kind \in RangedKinds :
          /\ limits = Instantiation(kind)
          /\ value_ = kMinimum(kind)
    /\ call = [op |-> "RangedValue", value |-> value_, before |-> value_,
               result |-> TRUE]

\* RangedValue(T value): the object is constructed anew from a value.
Construct(value) ==
    /\ value_' = setAndClampValue(value, limits.kMinimum, limits.kMaximum)
    /\ call' = [op |-> "RangedValue", value |-> value, before |-> value_,
                result |-> TRUE]
    /\ UNCHANGED rangedFrame

TrySetValue(value) ==
    /\ LET r == trySetValue(value_, value, limits.kMinimum, limits.kMaximum)
       IN /\ value_' = r.value
          /\ call' = [op |-> "trySetValue", value |-> value,
                      before |-> value_, result |-> r.ok]
    /\ UNCHANGED rangedFrame

SetAndClampValue(value) ==
    /\ value_' = setAndClampValue(value, limits.kMinimum, limits.kMaximum)
    /\ call' = [op |-> "setAndClampValue", value |-> value, before |-> value_,
                result |-> TRUE]
    /\ UNCHANGED rangedFrame

NextRanged ==
    \E value \in Arguments :
        \/ Construct(value)
        \/ TrySetValue(value)
        \/ SetAndClampValue(value)

SpecRanged == InitRanged /\ [][NextRanged]_vars

\* rawValue()
rawValue == value_

\* C28: after construction and after any sequence of trySetValue and
\* setAndClampValue calls rawValue() lies in [Minimum, Maximum], and a
\* trySetValue call with an argument outside the range returns false and
\* leaves the value as it was.
C28_ValueStaysInRange ==
    /\ limits.kMinimum <= rawValue
    /\ rawValue <= limits.kMaximum
    /\ (/\ call.op = "trySetValue"
        /\ (call.value < limits.kMinimum \/ limits.kMaximum < call.value))
       => (~call.result /\ rawValue = call.before)

\* trySetValue has refused a value above the range on an object that held
\* a value other than its minimum.
C28_Witness ==
    /\ call.op = "trySetValue"
    /\ limits.kMaximum < call.value
    /\ ~call.result
    /\ call.before # limits.kMinimum
    /\ rawValue = call.before

(***************************************************************************)
(* SpecRpn: an FmAudioSource that is given controller messages of channel  *)
(* 1 and, among them, a note-on and a pitch-wheel message.                 *)
(***************************************************************************)
\* MIDI messages in one behaviour.
MaxRpnMessages == 4

RpnMessages ==
    {ControllerMessage(101, 0), ControllerMessage(100, 0),
     ControllerMessage(100, 1), ControllerMessage(99, 0),
     ControllerMessage(98, 0), ControllerMessage(6, 12),
     ControllerMessage(38, 0), ControllerMessage(7, 5),
     NoteOnMessage(1, kC4NoteNumber, 100), PitchWheelMessage(16383)}

RpnMessage(message) ==
    /\ nEvents < MaxRpnMessages
    /\ TryReserveChangeFromMidiMessage(message)

NextRpn ==
    \/ PrepareToPlay
    \/ \E message \in RpnMessages : RpnMessage(message)

SpecRpn == InitAudio /\ [][NextRpn]_vars

\* The controller completes the sequence of the pitch-bend sensitivity:
\* the value's MSB after both bytes of RPN 0.
CompletesSensitivity(detector, message) ==
    /\ message.kind = "controller"
    /\ message.controllerNumber = 6
    /\ detector.parameterMSB = 0
    /\ detector.parameterLSB = 0
    /\ ~detector.isNRPN

\* C26: a controller message that does not complete the sequence of the
\* pitch-bend sensitivity changes neither the sensitivity nor the pending
\* write list; a message that is no controller resets the detector, so that
\* the controller after it completes nothing; and the detector is reset
\* when a sensitivity has been parsed.
C26_RpnSequence ==
    [][(call'.op = "tryReserveChangeFromMidiMessage")
       => LET message == call'.message
          IN /\ (/\ message.kind = "controller"
                 /\ ~CompletesSensitivity(rpnDetector_, message))
                => /\ UNCHANGED <<pitchBendSensitivity_, reservedChanges_>>
                   /\ ~call'.result
             /\ message.kind # "controller"
                => rpnDetector_' = MidiRPNDetectorNew
             /\ (/\ message.kind = "controller"
                 /\ call.op = "tryReserveChangeFromMidiMessage"
                 /\ call.message.kind # "controller")
                => UNCHANGED <<pitchBendSensitivity_, reservedChanges_>>
             /\ CompletesSensitivity(rpnDetector_, message)
                => rpnDetector_' = MidiRPNDetectorNew]_vars

\* With a voice sounding, the value controller arrived when only the MSB of
\* RPN 0 had been received: nothing was parsed and nothing queued.
C26_Witness ==
    /\ call.op = "tryReserveChangeFromMidiMessage"
    /\ call.message = ControllerMessage(6, 12)
    /\ call.detector.parameterMSB = 0
    /\ call.detector.parameterLSB = 255
    /\ call.sounding # <<>>
    /\ ~call.result
    /\ call.writes = <<>>

(***************************************************************************)
(* SpecThreadsFair: the threads of SpecThreads under a scheduler that lets *)
(* every thread go on: a thread that can take its next step takes it, a    *)
(* mutex that is free again and again is at last given to a thread that    *)
(* waits for it, and a loop over a container comes to its end: of the      *)
(* loops at one depth of nesting, a thread that reaches their tests again  *)
(* and again leaves one.  That a function is called at all is not          *)
(* required.                                                               *)
(***************************************************************************)
\* A step of the thread inside its function that waits for nothing.
ThreadStep(t) ==
    \/ ThreadUnlock(t)
    \/ ThreadAccess(t)
    \/ ThreadChip(t)
    \/ ThreadGoto(t)

\* The instruction at index i tests the condition of a loop: the
\* instruction before its far target jumps back to it.
IsLoopHead(program, i) ==
    /\ program[i].op = "goto"
    /\ \E far \in program[i].arg :
          /\ far > 1
          /\ program[i + far - 1].op = "goto"
          /\ program[i + far - 1].arg = {-(far - 1)}

\* The index after the loop whose test is at index i.
LoopExit(program, i) == i + (CHOOSE far \in program[i].arg : far > 1)

\* How many loops of the program enclose index i.
Depth(program, i) ==
    Cardinality({h \in 1..(i - 1) :
                    IsLoopHead(program, h) /\ i < LoopExit(program, h)})

Depths ==
    [t \in Threads |->
        {Depth(Program(t), i) :
            i \in {h \in 1..Len(Program(t)) : IsLoopHead(Program(t), h)}}]

\* The thread leaves a loop that depth loops enclose.
ThreadLeave(t, depth) ==
    /\ Running(t)
    /\ IsLoopHead(Program(t), threadPc[t])
    /\ Depth(Program(t), threadPc[t]) = depth
    /\ GoOn(t, LoopExit(Program(t), threadPc[t]))
    /\ UNCHANGED held

SpecThreadsFair ==
    /\ InitThreads
    /\ [][NextThreads]_vars
    /\ \A t \in Threads :
          /\ WF_vars(ThreadStep(t))
          /\ SF_vars(ThreadLock(t))
          /\ \A depth \in Depths[t] : SF_vars(ThreadLeave(t, depth))

\* Thread t requests a mutex that thread u holds.
WaitsFor(t, u) ==
    /\ At(t, "lock")
    /\ held[u] \cap Current(t).arg # {}

\* The thread waits for a mutex that another thread holds.
Waits(t) == \E u \in Threads \ {t} : WaitsFor(t, u)

DrainInputs ==
    {<<"AttackRateValue", 0, 5>>, <<"AttackRateValue", 0, 7>>,
     <<"AttackRateValue", 1, 6>>, <<"FeedbackValue", 0, 1>>}

\* enqueue, lines 12-16: the entry found under the variant index is erased.
enqueueErase(pq, parameter) ==
    LET typeIndex == VariantIndex(parameter)
    IN IF Contains(pq.map, typeIndex)
       THEN Pq(EraseNode(pq.queue, Find(pq.map, typeIndex)), pq.map)
       ELSE pq

\* enqueue, lines 18-19: emplace_front and insert_or_assign.
enqueueInsert(pq, parameter) ==
    LET node == NewNode(pq.queue)
    IN Pq(<<[node |-> node, parameter |-> parameter]>> \o pq.queue,
          InsertOrAssign(pq.map, VariantIndex(parameter), node))

QueueMutexFree == \A t \in Threads : "parameterQueueMutex_" \notin held[t]

drainFrame ==
    <<ret, hist, resampler_, midiMessages, iter, sampleStartPosition, nEvents,
      rendered, unsent, sentLog, nOthers, limits, value_>>

\* What a step of the UI thread leaves alone.
uiFrame == <<kbVars, srcVars, ym2608_, err, ub, pc, drainFrame>>

\* An attachment's callback casts the raw value and calls
\* reserveParameterChange.
UiCall(kind, slot, raw) ==
    /\ ~ub
    /\ threadPc["ui"] = 0
    /\ nParameters < MaxParamCalls
    /\ LET value == parameterCast(kind, raw)
       IN call' = [op |-> "reserveParameterChange",
                   parameter |-> IF kind \in SlotKinds
                                 THEN SlotAndValue(kind, slot, value)
                                 ELSE PlainValue(kind, value)]
    /\ nParameters' = nParameters + 1
    /\ threadPc' = [threadPc EXCEPT !["ui"] = 1]
    /\ UNCHANGED <<queue_, map_, edited, held, uiFrame>>

\* std::lock_guard guard{parameterQueueMutex_} (plugin_processor.cpp:432)
UiLock ==
    /\ threadPc["ui"] = 1
    /\ QueueMutexFree
    /\ held' = [held EXCEPT !["ui"] = {"parameterQueueMutex_"}]
    /\ threadPc' = [threadPc EXCEPT !["ui"] = 2]
    /\ UNCHANGED <<queue_, map_, edited, call, nParameters, uiFrame>>

UiEnqueueErase ==
    /\ threadPc["ui"] = 2
    /\ InstallQueue(enqueueErase(parameterChangeQueue_, call.parameter))
    /\ threadPc' = [threadPc EXCEPT !["ui"] = 3]
    /\ UNCHANGED <<edited, held, call, nParameters, uiFrame>>

UiEnqueueInsert ==
    /\ threadPc["ui"] = 3
    /\ InstallQueue(enqueueInsert(parameterChangeQueue_, call.parameter))
    /\ edited' = {e \in edited : ~(e.kind = call.parameter.kind
                                   /\ e.slot = call.parameter.slot)}
                  \cup {call.parameter}
    /\ threadPc' = [threadPc EXCEPT !["ui"] = 4]
    /\ UNCHANGED <<held, call, nParameters, uiFrame>>

\* reserveParameterChange returns and the guard is destroyed.
UiUnlock ==
    /\ threadPc["ui"] = 4
    /\ held' = [held EXCEPT !["ui"] = {}]
    /\ threadPc' = [threadPc EXCEPT !["ui"] = 0]
    /\ UNCHANGED <<queue_, map_, edited, call, nParameters, uiFrame>>

\* What a step of the realtime thread leaves alone besides the source.
realtimeFrame == <<call, nParameters, threadPc, drainFrame>>

\* fillBuffer is entered (plugin_processor.cpp:329-339).
DrainEnter ==
    /\ ~ub
    /\ resampler_
    /\ pc \in {"idle", "done"}
    /\ pc' = "lock"
    /\ UNCHANGED <<kbVars, srcVars, ym2608_, err, ub, queue_, map_, edited,
                   held, realtimeFrame>>

\* std::lock_guard guard{parameterQueueMutex_} (plugin_processor.cpp:343)
DrainLock ==
    /\ pc = "lock"
    /\ QueueMutexFree
    /\ held' = [held EXCEPT !["realtime"] = {"parameterQueueMutex_"}]
    /\ pc' = "if"
    /\ UNCHANGED <<kbVars, srcVars, ym2608_, err, ub, queue_, map_, edited,
                   realtimeFrame>>

\* if (!parameterChangeQueue_.empty()) and while (!...empty())
DrainTest ==
    /\ pc \in {"if", "while"}
    /\ pc' = IF ~empty(parameterChangeQueue_) THEN "dequeue"
             ELSE IF pc = "if" THEN "unlock" ELSE "trigger"
    /\ UNCHANGED <<kbVars, srcVars, ym2608_, err, ub, queue_, map_, edited,
                   held, realtimeFrame>>

\* auto&& parameter = dequeue(); std::visit(tryReserveParameterChange)
DrainDequeue ==
    /\ pc = "dequeue"
    /\ LET d == dequeue(parameterChangeQueue_)
       IN /\ err' = d.err
          /\ InstallQueue(d.pq)
          /\ IF d.err = "none"
             THEN /\ \E garbage \in Garbage :
                        LET r == tryReserveParameterChange(audioSource_,
                                                           d.ret[1], garbage)
                        IN InstallSource(r.src) /\ ub' = r.ub
                  /\ edited' = {e \in edited : ~(e.kind = d.ret[1].kind
                                                 /\ e.slot = d.ret[1].slot)}
                  /\ pc' = "while"
             ELSE /\ pc' = "thrown"
                  /\ UNCHANGED <<kbVars, srcVars, ub, edited>>
    /\ UNCHANGED <<ym2608_, held, realtimeFrame>>

\* audioSource_->triggerReservedChanges() (plugin_processor.cpp:355)
DrainTrigger ==
    /\ pc = "trigger"
    /\ LET t == triggerReservedChanges(audioSource_, ym2608_)
       IN InstallSource(t.src) /\ ym2608_' = t.sink
    /\ pc' = "unlock"
    /\ UNCHANGED <<err, ub, queue_, map_, edited, held, realtimeFrame>>

\* The guard is destroyed at the end of the block (plugin_processor.cpp:357).
DrainUnlock ==
    /\ pc = "unlock"
    /\ held' = [held EXCEPT !["realtime"] = {}]
    /\ pc' = "done"
    /\ UNCHANGED <<kbVars, srcVars, ym2608_, err, ub, queue_, map_, edited,
                   realtimeFrame>>

\* prepareToPlay touches neither the queue nor its mutex: it is taken
\* between two calls of the UI thread, whose call it would overwrite.
DrainPrepare ==
    /\ threadPc["ui"] = 0
    /\ PrepareToPlay

NextDrain ==
    \/ DrainPrepare
    \/ \E e \in DrainInputs : UiCall(e[1], e[2], e[3])
    \/ UiLock
    \/ UiEnqueueErase
    \/ UiEnqueueInsert
    \/ UiUnlock
    \/ DrainEnter
    \/ DrainLock
    \/ DrainTest
    \/ DrainDequeue
    \/ DrainTrigger
    \/ DrainUnlock

SpecDrain == InitAudio /\ [][NextDrain]_vars

\* The drain is about to release parameterQueueMutex_.
Releasing == pc = "unlock"

\* C31, the queue's part: the drain never calls dequeue on an empty queue and
\* the queue is empty when the drain releases the mutex.
DrainEmptiesQueue ==
    /\ err # "range_error"
    /\ pc = "dequeue" => ~empty(parameterChangeQueue_)
    /\ Releasing => empty(parameterChangeQueue_)

\* C31: under any interleaving of the UI thread's reserveParameterChange
\* calls with the realtime callback, the drain never calls dequeue on an
\* empty queue, leaves the queue empty when it releases the mutex, and
\* has then handed over the parameter of every enqueue that had returned.
C31_DrainDeliversEveryEdit ==
    /\ DrainEmptiesQueue
    /\ Releasing => edited = {}

(***************************************************************************)
(* SpecSync: after prepareToPlay, calls of tryReserveParameterChange and   *)
(* note messages on the realtime thread, each batch followed by            *)
(* triggerReservedChanges as in fillBuffer (plugin_processor.cpp:355 and   *)
(* 381).  pc is "loop" while calls wait for their flush.                   *)
(***************************************************************************)
\* Changes of tone and operator parameters that are encoded in a register:
\* both parameters of each of the shared registers 0xb0, 0x30, 0x50 and 0x80,
\* and one of the parameters that have a register of their own.
SyncInputs ==
    {PlainValue("AlgorithmValue", 4), PlainValue("FeedbackValue", 5),
     SlotAndValue("AttackRateValue", 0, 10),
     SlotAndValue("KeyScaleValue", 0, 3),
     SlotAndValue("ReleaseRateValue", 0, 3),
     SlotAndValue("SustainLevelValue", 0, 6),
     SlotAndValue("TotalLevelValue", 3, 100),
     SlotAndValue("MultipleValue", 1, 11),
     SlotAndValue("DetuneValue", 1, -2)}

syncFrame ==
    <<ret, err, hist, resampler_, midiMessages, iter, sampleStartPosition,
      rendered, unsent, sentLog, queue_, map_, edited, nOthers, auxVars>>

SyncParameter(parameter) ==
    /\ ~ub
    /\ resampler_
    /\ nParameters < MaxParamCalls
    /\ \E garbage \in Garbage :
          LET r == tryReserveParameterChange(audioSource_, parameter, garbage)
          IN /\ InstallSource(r.src)
             /\ ub' = r.ub
             /\ call' = [op |-> "tryReserveParameterChange",
                         parameter |-> parameter, result |-> r.ok]
    /\ nParameters' = nParameters + 1
    /\ pc' = "loop"
    /\ UNCHANGED <<ym2608_, nEvents, syncFrame>>

\* A voice is started before the first parameter change.
SyncMessage(message) ==
    /\ ~ub
    /\ resampler_
    /\ nParameters = 0
    /\ noteOnQueue_ = <<>>
    /\ \E garbage \in Garbage :
          \E r \in tryReserveChangeFromMidiMessage(audioSource_, message, garbage) :
             /\ InstallSource(r.src)
             /\ ub' = r.ub
             /\ call' = [op |-> "tryReserveChangeFromMidiMessage",
                         message |-> message, result |-> r.ok]
    /\ nEvents' = nEvents + 1
    /\ pc' = "loop"
    /\ UNCHANGED <<ym2608_, nParameters, syncFrame>>

SyncFlush ==
    /\ ~ub
    /\ pc = "loop"
    /\ LET t == triggerReservedChanges(audioSource_, ym2608_)
       IN InstallSource(t.src) /\ ym2608_' = t.sink
    /\ pc' = "done"
    /\ call' = [op |-> "triggerReservedChanges"]
    /\ UNCHANGED <<ub, nParameters, nEvents, syncFrame>>

NextSync ==
    \/ PrepareToPlay
    \/ \E parameter \in SyncInputs : SyncParameter(parameter)
    \/ SyncMessage(NoteOnMessage(1, kC4NoteNumber, 100))
    \/ SyncFlush

SpecSync == InitAudio /\ [][NextSync]_vars

\* The registers of the chip after the writes lo..hi of a sequence of
\* writes, from the registers before them; a register is found at its
\* address, plus 256 with pin A1.
RECURSIVE Written(_, _, _, _)
Written(writes, lo, hi, file) ==
    IF hi < lo \/ DOMAIN file = {} THEN file
    ELSE IF lo = hi
    THEN [file EXCEPT ![writes[lo].address
                        + (IF writes[lo].pinA1 THEN 256 ELSE 0)] = writes[lo].data]
    ELSE LET mid == (lo + hi) \div 2
         IN Written(writes, mid + 1, hi, Written(writes, lo, mid, file))

\* The last value written to every register; -1 where nothing was written.
RegisterFile(writes) ==
    Written(writes, 1, Len(writes), [address \in 0..511 |-> -1])

\* The registers of the file hold the given writes.
Holds(file, registers) ==
    \A i \in 1..Len(registers) :
        file[registers[i].address
             + (IF registers[i].pinA1 THEN 256 ELSE 0)] = registers[i].data

\* Everything reserved has been written to the chip.
Flushed == resampler_ /\ pc \in {"idle", "done"} /\ ~ub

\* C33: after prepareToPlay, at the end of every flush the last value
\* written to each tone and operator register of each of the 6 hardware
\* channels is the encoding of the current Parameter State, whether the
\* voice of the channel is sounding or free.
C33_RegistersFollowParameterState ==
    Flushed =>
        LET file == RegisterFile(ym2608_)
        IN \A channel \in 0..(kMaxChannelCount - 1) :
              Holds(file, ChannelRegisters(toneParameterState_, channel))

\* A flush after the sustain level and the release rate of slot 0, which
\* share a register, were both changed while one voice was sounding.
C33_Witness ==
    /\ Flushed
    /\ call.op = "triggerReservedChanges"
    /\ toneParameterState_.slot[0].sl = 6
    /\ toneParameterState_.slot[0].rr = 3
    /\ Len(noteOnQueue_) = 1

\* The step is a call of prepareToPlay.
Prepares == ~resampler_ /\ resampler_'

\* The writes occur in the sequence, next to one another and in order.
OccursIn(writes, sequence) ==
    \E first \in 1..(Len(sequence) - Len(writes) + 1) :
        SubSeq(sequence, first, first + Len(writes) - 1) = writes

MaskInputs ==
    {SlotAndValue("OperatorEnabledValue", slot, v) :
        slot \in 0..(kSlotCount - 1), v \in {0, 1}}

NextMask ==
    \/ PrepareToPlay
    \/ StartVoice
    \/ \E parameter \in MaskInputs : TryReserveParameterChange(parameter)

SpecMask == InitAudio /\ [][NextMask]_vars

\* C35: after prepareToPlay and any changes of the operators' enabled flags
\* the note-on mask has bit slot + 4 set exactly for the enabled slots; a
\* change that flips a flag queues one 0x28 write with the voice's channel
\* bits and the new mask for every sounding voice, oldest first, and nothing
\* else; a change that flips nothing queues nothing.
C35_MaskFollowsEnabledFlags ==
    [][/\ resampler_' => noteOnMask_' = EnableMask(toneParameterState_')
       /\ ParameterCall =>
             LET slot == call'.parameter.slot
                 flips == toneParameterState_'.slot[slot].isEnabled
                          # toneParameterState_.slot[slot].isEnabled
             IN /\ toneParameterState_'.slot[slot].isEnabled
                      = (call'.parameter.value = 1)
                /\ call'.result = flips
                /\ call'.writes =
                      IF flips
                      THEN [i \in 1..Len(noteOnQueue_) |->
                               TriggerWrite(ChannelBits(noteOnQueue_[i].assignId)
                                            + noteOnMask_')]
                      ELSE <<>>]_vars

\* With one voice sounding and five free, slot 1 was disabled and then
\* slot 3: the second change queued one write with the mask 0x50.
C35_Witness ==
    /\ call.op = "tryReserveParameterChange"
    /\ call.parameter = SlotAndValue("OperatorEnabledValue", 3, 0)
    /\ call.result
    /\ Len(noteOnQueue_) = 1
    /\ Len(assignableIdQueue_) = 5
    /\ noteOnMask_ = 80
    /\ call.writes = <<TriggerWrite(ChannelBits(noteOnQueue_[1].assignId) + 80)>>

\* C36: the controller that completes the sequence of RPN 0 with the
\* data-entry value v leaves the pitch-bend sensitivity at v, limited to
\* 1..24, and queues the pitch register pair of every sounding voice for
\* the new sensitivity.
C36_SensitivityFromDataEntry ==
    [][(/\ call'.op = "tryReserveChangeFromMidiMessage"
        /\ CompletesSensitivity(rpnDetector_, call'.message)) =>
          LET v == setAndClampValue(call'.message.controllerValue, 1, 24)
          IN /\ pitchBendSensitivity_' = v
             /\ call'.writes = PitchPairs(noteOnQueue_, pitchBend_, v)]_vars

\* The data of the writes to the register at the base address, plus the
\* offsets of the operator slot and of the channel id, among the writes.
OperatorWrites(writes, id, slot, base) ==
    LET r == Register(addressOfChannel(id, addressOfOperator(slot, base)), 0)
    IN {writes[i].data :
           i \in {j \in 1..Len(writes) :
                     /\ writes[j].pinA1 = r.pinA1
                     /\ writes[j].address = r.address}}

\* C37: every write to an SSG-EG register (0x90 plus the offsets of the
\* operator and the channel) that prepareToPlay's full state sync queues has
\* bit 3, the enable bit, set exactly when the operator's SSG-EG enabled flag
\* in Parameter State is true, and the write to the operator's 0x50 register
\* carries the attack rate 31 exactly under the same flag or when the
\* operator's attack rate is 31.
C37_SsgegEnableBit ==
    [][Prepares =>
          LET queued == Appended(reservedChanges_, reservedChanges_')
          IN \A id \in 0..(kMaxChannelCount - 1) :
                \A slot \in 0..(kSlotCount - 1) :
                   LET op == toneParameterState_'.slot[slot]
                   IN /\ OperatorWrites(queued, id, slot, 144) # {}
                      /\ \A data \in OperatorWrites(queued, id, slot, 144) :
                            ((data \div 8) % 2 = 1) <=> op.ssgeg.isEnabled
                      /\ \A data \in OperatorWrites(queued, id, slot, 80) :
                            (data % 32 = kAttackRateMaximum)
                               <=> (op.ssgeg.isEnabled
                                    \/ op.ar = kAttackRateMaximum)]_vars

(***************************************************************************)
(* SpecPitch: reservePitchChange over the range of its inputs: one voice   *)
(* started with a note from the bottom, the middle or the top of the MIDI  *)
(* range, pitch-wheel messages for the lowest, the middle and the highest  *)
(* bend, and changes of the pitch-bend sensitivity.                        *)
(***************************************************************************)
PitchNotes == {0, 11, 12, kC4NoteNumber, 107, 108, 127}

PitchWheels == {PitchWheelMessage(v) : v \in {0, 8192, 16383}}

PitchSensitivities ==
    {PlainValue("PitchBendSensitivityValue", v) : v \in {2, 24}}

PitchNoteOn(noteNumber) ==
    /\ noteOnQueue_ = <<>>
    /\ TryReserveChangeFromMidiMessage(NoteOnMessage(1, noteNumber, 100))

NextPitch ==
    \/ PrepareToPlay
    \/ \E noteNumber \in PitchNotes : PitchNoteOn(noteNumber)
    \/ \E message \in PitchWheels : OtherMessage(message)
    \/ \E parameter \in PitchSensitivities : OtherParameter(parameter)

SpecPitch == InitAudio /\ [][NextPitch]_vars

\* The voice id whose Block/F-Num2 register (0xa4..0xa6 on either bank) the
\* write goes to; -1 for a write to another register.
BlockWriteId(w) ==
    IF w.address \in 164..166
    THEN (w.address - 164) + (IF w.pinA1 THEN 3 ELSE 0)
    ELSE -1

\* C38: for every MIDI note, pitch bend and pitch-bend sensitivity the
\* Block/F-Num2 byte that reservePitchChange queues for a voice has no bit
\* above bit 5 set and a block field, bits 3..5, equal to
\* floor(cent / 1200) - 1, which lies in 0..7, where cent =
\* note * 100 + 100 * sensitivity * bend / (8192 if bend < 0 else 8191).
C38_BlockField ==
    [][(call'.op \in {"tryReserveChangeFromMidiMessage",
                      "tryReserveParameterChange"}) =>
          \A i \in 1..Len(call'.writes) :
             LET w == call'.writes[i]
                 voices == {j \in 1..Len(noteOnQueue_') :
                               noteOnQueue_'[j].assignId = BlockWriteId(w)}
             IN \A j \in voices :
                   LET bend == pitchBend_'
                       cent == noteOnQueue_'[j].note.noteNumber * 100
                               + CDiv(100 * pitchBendSensitivity_' * bend,
                                      IF bend < 0 THEN 8192 ELSE 8191)
                       block == (cent \div 1200) - 1
                   IN /\ block \in 0..7
                      /\ w.data < 64
                      /\ w.data \div 8 = block]_vars

(***************************************************************************)
(* SpecPack: prepareToPlay, a voice started, and then changes of the       *)
(* operator parameters that share a register with another one, for every   *)
(* operator slot.                                                          *)
(***************************************************************************)
PackInputs ==
    UNION {{SlotAndValue("SustainLevelValue", slot, 6),
            SlotAndValue("ReleaseRateValue", slot, 3),
            SlotAndValue("KeyScaleValue", slot, 3),
            SlotAndValue("AttackRateValue", slot, 10)} :
              slot \in 0..(kSlotCount - 1)}

NextPack ==
    \/ PrepareToPlay
    \/ StartVoice
    \/ \E parameter \in PackInputs : TryReserveParameterChange(parameter)

SpecPack == InitAudio /\ [][NextPack]_vars

\* One write of the byte to the register at the base address plus the
\* offsets of the operator slot and of the channel, for each of the 6
\* hardware voices in ascending order.
OperatorBroadcast(slot, base, byte) ==
    [n \in 1..kMaxChannelCount |->
        [pinA1 |-> n > 3,
         address |-> base + kOperatorOffset[slot + 1] + ((n - 1) % 3),
         data |-> byte]]

\* C39: for each operator slot a change of the sustain level or of the
\* release rate queues for every hardware voice a write to register 0x80
\* plus offsets with the byte (sustainLevel << 4) | releaseRate, and a
\* change of the key scale or, with SSG-EG disabled, of the attack rate a
\* write to register 0x50 plus offsets with the byte (keyScale << 6) |
\* attackRate; each byte is packed from the new value and from the value
\* Parameter State holds for the other field.
C39_SharedRegisterBytes ==
    [][(ParameterCall /\ call'.result) =>
          LET kind == call'.parameter.kind
              slot == call'.parameter.slot
              value == call'.parameter.value
              old == toneParameterState_.slot[slot]
          IN /\ kind = "SustainLevelValue" =>
                   call'.writes = OperatorBroadcast(slot, 128, value * 16 + old.rr)
             /\ kind = "ReleaseRateValue" =>
                   call'.writes = OperatorBroadcast(slot, 128, old.sl * 16 + value)
             /\ kind = "KeyScaleValue" =>
                   call'.writes = OperatorBroadcast(slot, 80, value * 64 + old.ar)
             /\ (kind = "AttackRateValue" /\ ~old.ssgeg.isEnabled) =>
                   call'.writes = OperatorBroadcast(slot, 80, old.ks * 64 + value)]_vars

\* With one voice sounding the sustain level of slot 3 was changed after
\* its release rate: 6 writes of (6 << 4) | 3 to the slot's 0x80 registers.
C39_Witness ==
    /\ call.op = "tryReserveParameterChange"
    /\ call.parameter = SlotAndValue("SustainLevelValue", 3, 6)
    /\ call.result
    /\ toneParameterState_.slot[3].rr = 3
    /\ Len(noteOnQueue_) = 1
    /\ call.writes = OperatorBroadcast(3, 128, 99)

(***************************************************************************)
(* SpecDetune: prepareToPlay, a voice started, and then changes of the     *)
(* detune and of the multiple of one operator over all of their values.    *)
(***************************************************************************)
DetuneInputs ==
    {SlotAndValue("DetuneValue", 1, d) :
        d \in kMinimum("DetuneValue")..kMaximum("DetuneValue")}
    \cup {SlotAndValue("MultipleValue", 1, m) :
             m \in kMinimum("MultipleValue")..kMaximum("MultipleValue")}

NextDetune ==
    \/ PrepareToPlay
    \/ StartVoice
    \/ \E parameter \in DetuneInputs : TryReserveParameterChange(parameter)

SpecDetune == InitAudio /\ [][NextDetune]_vars

\* C40: for every detune d in -3..3 and multiple m in 0..15 a change of the
\* detune or of the multiple queues, for every hardware voice, the byte
\* (((4 if d < 0 else 0) | |d|) << 4) | m to the operator's 0x30 register;
\* the byte fits in 7 bits, the 3-bit detune code is 0 for d = 0 only and
\* distinct values of d have distinct codes.
C40_DetuneMultipleByte ==
    [][(/\ ParameterCall
        /\ call'.result
        /\ call'.parameter.kind \in {"DetuneValue", "MultipleValue"}) =>
          LET slot == call'.parameter.slot
              d == toneParameterState_'.slot[slot].dt
              m == toneParameterState_'.slot[slot].ml
              code == (IF d < 0 THEN 4 ELSE 0) + (IF d < 0 THEN -d ELSE d)
              byte == code * 16 + m
          IN /\ StoredValue(audioSource_', call'.parameter.kind, slot)
                   = call'.parameter.value
             /\ call'.writes = OperatorBroadcast(slot, 48, byte)
             /\ byte < 128
             /\ code = 0 <=> d = 0
             /\ \A other \in kMinimum("DetuneValue")..kMaximum("DetuneValue") :
                   convertDetuneAsRegisterValue(other) = code => other = d]_vars

\* The detune was set to -3 after the multiple was set to 15: the byte
\* 0x7f was queued for the 6 voices.
C40_Witness ==
    /\ call.op = "tryReserveParameterChange"
    /\ call.parameter = SlotAndValue("DetuneValue", 1, -3)
    /\ call.result
    /\ toneParameterState_.slot[1].ml = 15
    /\ call.writes = OperatorBroadcast(1, 48, 127)

====
